---- MODULE Spec2Model ----
(***************************************************************************)
(* Draft engine (src/src/draft_engine.py) and roster slot allocator        *)
(* (src/src/models.py) of the fantasy baseball draft tool.                 *)
(*                                                                         *)
(* Representation choices:                                                 *)
(*  - a PlayerId value is a pair <<rep, n>>: rep is "str" or "int" (the    *)
(*    Python type of the value), n the number it denotes.  Python's ==     *)
(*    between an int and a str is False, so equality of pairs is equality  *)
(*    of PlayerId values; str(x) is ToStr(x).                              *)
(*  - a POS value is the list of tags str(position).split('/') yields, or  *)
(*    None for a missing (NaN/None) position.                              *)
(*  - self.teams (an insertion-ordered dict) is a sequence of Team records *)
(*    with pairwise distinct owner_name.                                   *)
(*  - an exception leaving an operation is recorded in last.ret by its     *)
(*    class name; the state written before the raise is kept.              *)
(***************************************************************************)
EXTENDS Integers, Sequences, FiniteSets, TLC

VARIABLES idType,     \* dtype of the PlayerId column of both pools
          poolRows,   \* the players the two pool files list, by number
          bat_df,     \* DraftEngine.bat_df: row -> [Status, DraftedBy]
          pitch_df,   \* DraftEngine.pitch_df: row -> [Status, DraftedBy]
          teams,      \* DraftEngine.teams
          last,       \* the most recent call and its outcome
          pre,        \* the engine state the most recent call started from
          sims,       \* the DraftSimulator objects of the process
          rng,        \* state of numpy's process-global generator
          spre        \* sims and rng as the most recent call found them

vars == <<idType, poolRows, bat_df, pitch_df, teams, last, pre, sims, rng, spre>>

None == "None"

-----------------------------------------------------------------------------
(* Bounds of the model *)

\* total number of roster entries over all teams of the engine
MaxRoster == 2
\* roster length of the single team of the allocator specification
MaxAllocRoster == 10
MaxFitRoster == 4

-----------------------------------------------------------------------------
(* The input universe *)

TeamNames == {"T1", "T2"}
InitTeamNames == <<"T1", "T2">>
BatNums == poolRows.bat
PitchNums == poolRows.pitch
\* the pools of the engine specifications: one batter, one pitcher
SmallPool == [bat |-> {1001}, pitch |-> {2001}]
ArgNums == BatNums \cup PitchNums
Reps == {"str", "int"}
ArgIds == Reps \X ArgNums
Costs == {15}

\* static columns of the pool rows
\* 1001 is a catcher and outfielder, every other batter a catcher, every
\* pitcher a starter
POS(n) == IF n = 1001 THEN <<"C", "OF">> ELSE IF n < 2000 THEN <<"C">> ELSE <<"SP">>
Dollars(n) == IF n = 1001 THEN 30 ELSE IF n = 1002 THEN 20 ELSE 25
PlayerId(n) == <<idType, n>>

ToStr(id) == <<"str", id[2]>>

-----------------------------------------------------------------------------
(* models.py: Team and the slot allocator *)

SLOT_LIMITS ==
  ("C" :> 1) @@ ("1B" :> 1) @@ ("2B" :> 1) @@ ("3B" :> 1) @@ ("SS" :> 1) @@
  ("OF" :> 3) @@ ("Util" :> 2) @@
  ("SP" :> 3) @@ ("RP" :> 2) @@ ("P" :> 1) @@
  ("BN" :> 6) @@
  ("IL" :> 5) @@ ("NA" :> 2)

Slots == DOMAIN SLOT_LIMITS

Player(player_id, position, dollars, is_pitcher) ==
  [player_id |-> player_id, position |-> position,
   dollars |-> dollars, is_pitcher |-> is_pitcher]

Team(name) ==
  [owner_name |-> name, roster |-> <<>>, slots_filled |-> [k \in Slots |-> 0]]

InSeq(x, s) == \E i \in 1..Len(s) : s[i] = x

possible_pos(player) ==
  IF player.position = None
  THEN IF player.is_pitcher THEN <<"P">> ELSE <<"Util">>
  ELSE player.position

\* the loop taking the last listed tag that has room, not the first
RECURSIVE FirstOpen_LastTag(_, _)
FirstOpen_LastTag(sf, pp) ==
  IF pp = <<>> THEN None
  ELSE LET later == FirstOpen_LastTag(sf, Tail(pp))
       IN IF later # None THEN later
          ELSE IF Head(pp) \in Slots /\ sf[Head(pp)] < SLOT_LIMITS[Head(pp)]
               THEN Head(pp)
               ELSE None

\* the batter loop of add_player: the first listed tag that names a slot
\* with remaining capacity, None when the loop ends without a break
RECURSIVE FirstOpen(_, _)
FirstOpen(sf, pp) ==
  IF pp = <<>> THEN None
  ELSE IF Head(pp) \in Slots /\ sf[Head(pp)] < SLOT_LIMITS[Head(pp)]
       THEN Head(pp)
       ELSE FirstOpen(sf, Tail(pp))

\* SlotFor with the bench taken without looking at its capacity
SlotFor_BenchUnchecked(sf, player) ==
  LET pp == possible_pos(player)
      specific ==
        IF ~player.is_pitcher
        THEN LET p == FirstOpen(sf, pp)
             IN IF p # None THEN p
                ELSE IF sf["Util"] < SLOT_LIMITS["Util"] THEN "Util" ELSE None
        ELSE IF InSeq("SP", pp) /\ sf["SP"] < SLOT_LIMITS["SP"] THEN "SP"
             ELSE IF InSeq("RP", pp) /\ sf["RP"] < SLOT_LIMITS["RP"] THEN "RP"
             ELSE IF sf["P"] < SLOT_LIMITS["P"] THEN "P" ELSE None
  IN IF specific # None THEN specific ELSE "BN"

\* the slot add_player increments for the player, None when it increments none
SlotFor(sf, player) ==
  LET pp == possible_pos(player)
      specific ==
        IF ~player.is_pitcher
        THEN LET p == FirstOpen(sf, pp)
             IN IF p # None THEN p
                ELSE IF sf["Util"] < SLOT_LIMITS["Util"] THEN "Util" ELSE None
        ELSE IF InSeq("SP", pp) /\ sf["SP"] < SLOT_LIMITS["SP"] THEN "SP"
             ELSE IF InSeq("RP", pp) /\ sf["RP"] < SLOT_LIMITS["RP"] THEN "RP"
             ELSE IF sf["P"] < SLOT_LIMITS["P"] THEN "P" ELSE None
  IN IF specific # None THEN specific
     ELSE IF sf["BN"] < SLOT_LIMITS["BN"] THEN "BN" ELSE None

\* add_player counting the player on the bench besides its slot
add_player_AlsoBench(team, player) ==
  LET s == SlotFor(team.slots_filled, player)
      sf == IF s = None THEN team.slots_filled
            ELSE [team.slots_filled EXCEPT ![s] = @ + 1]
  IN [team EXCEPT
        !.roster = Append(@, player),
        !.slots_filled = IF s \notin {None, "BN"} /\ sf["BN"] < SLOT_LIMITS["BN"]
                         THEN [sf EXCEPT !["BN"] = @ + 1] ELSE sf]

add_player(team, player) ==
  LET s == SlotFor(team.slots_filled, player)
  IN [team EXCEPT
        !.roster = Append(@, player),
        !.slots_filled = IF s = None THEN @ ELSE [@ EXCEPT ![s] = @ + 1]]

\* Team.live_totals.  The statistics are Python floats (IEEE 754 binary64),
\* written here by their repr; the counting statistics are integers.  The
\* stats columns of the players the totals are taken over:
LiveStats(n) ==
  CASE n = 1001 -> [AB |-> "500.0", R |-> 80, HR |-> 25, RBI |-> 75, SB |-> 15,
                    OBP |-> "0.35"]
    [] n = 1002 -> [AB |-> "450.0", R |-> 70, HR |-> 30, RBI |-> 80, SB |-> 5,
                    OBP |-> "0.36"]
    [] n = 2001 -> [IP |-> "157.0", SO |-> 41, ERA |-> "3.21", WHIP |-> "1.23",
                    WAR |-> "5.0", SV |-> 16]
    [] n = 2002 -> [IP |-> "46.0", SO |-> 193, ERA |-> "4.09", WHIP |-> "1.03",
                    WAR |-> "1.3", SV |-> 8]
    [] n = 2003 -> [IP |-> "193.0", SO |-> 219, ERA |-> "2.99", WHIP |-> "1.04",
                    WAR |-> "1.6", SV |-> 2]

\* p.stats
stats(player) == LiveStats(player.player_id[2])

\* binary64 arithmetic, round to nearest even, on the values that the sums
\* over the players of LiveStats meet: the result of each operation as
\* Python computes it
\* a + b
FloatAdd ==
  (<<"0.0", "1.3">> :> "1.3")
  @@ (<<"0.0", "1.6">> :> "1.6")
  @@ (<<"0.0", "157.0">> :> "157.0")
  @@ (<<"0.0", "162.0">> :> "162.0")
  @@ (<<"0.0", "175.0">> :> "175.0")
  @@ (<<"0.0", "193.0">> :> "193.0")
  @@ (<<"0.0", "193.10999999999999">> :> "193.10999999999999")
  @@ (<<"0.0", "20.904444444444444">> :> "20.904444444444444")
  @@ (<<"0.0", "200.72">> :> "200.72")
  @@ (<<"0.0", "450.0">> :> "450.0")
  @@ (<<"0.0", "46.0">> :> "46.0")
  @@ (<<"0.0", "47.38">> :> "47.38")
  @@ (<<"0.0", "5.0">> :> "5.0")
  @@ (<<"0.0", "500.0">> :> "500.0")
  @@ (<<"0.0", "55.99666666666666">> :> "55.99666666666666")
  @@ (<<"0.0", "64.11888888888889">> :> "64.11888888888889")
  @@ (<<"1.3", "1.6">> :> "2.9000000000000004")
  @@ (<<"1.3", "5.0">> :> "6.3")
  @@ (<<"1.6", "1.3">> :> "2.9000000000000004")
  @@ (<<"1.6", "5.0">> :> "6.6")
  @@ (<<"120.11555555555555", "20.904444444444444">> :> "141.01999999999998")
  @@ (<<"157.0", "193.0">> :> "350.0")
  @@ (<<"157.0", "46.0">> :> "203.0")
  @@ (<<"162.0", "175.0">> :> "337.0")
  @@ (<<"175.0", "162.0">> :> "337.0")
  @@ (<<"193.0", "157.0">> :> "350.0")
  @@ (<<"193.0", "46.0">> :> "239.0")
  @@ (<<"193.10999999999999", "200.72">> :> "393.83")
  @@ (<<"193.10999999999999", "47.38">> :> "240.48999999999998")
  @@ (<<"2.9000000000000004", "5.0">> :> "7.9")
  @@ (<<"20.904444444444444", "55.99666666666666">> :> "76.9011111111111")
  @@ (<<"20.904444444444444", "64.11888888888889">> :> "85.02333333333334")
  @@ (<<"200.72", "193.10999999999999">> :> "393.83")
  @@ (<<"200.72", "47.38">> :> "248.1")
  @@ (<<"203.0", "193.0">> :> "396.0")
  @@ (<<"239.0", "157.0">> :> "396.0")
  @@ (<<"240.48999999999998", "200.72">> :> "441.21")
  @@ (<<"248.1", "193.10999999999999">> :> "441.21")
  @@ (<<"350.0", "46.0">> :> "396.0")
  @@ (<<"393.83", "47.38">> :> "441.21")
  @@ (<<"450.0", "500.0">> :> "950.0")
  @@ (<<"46.0", "157.0">> :> "203.0")
  @@ (<<"46.0", "193.0">> :> "239.0")
  @@ (<<"47.38", "193.10999999999999">> :> "240.48999999999998")
  @@ (<<"47.38", "200.72">> :> "248.1")
  @@ (<<"5.0", "1.3">> :> "6.3")
  @@ (<<"5.0", "1.6">> :> "6.6")
  @@ (<<"500.0", "450.0">> :> "950.0")
  @@ (<<"55.99666666666666", "20.904444444444444">> :> "76.9011111111111")
  @@ (<<"55.99666666666666", "64.11888888888889">> :> "120.11555555555555")
  @@ (<<"6.3", "1.6">> :> "7.9")
  @@ (<<"6.6", "1.3">> :> "7.8999999999999995")
  @@ (<<"64.11888888888889", "20.904444444444444">> :> "85.02333333333334")
  @@ (<<"64.11888888888889", "55.99666666666666">> :> "120.11555555555555")
  @@ (<<"76.9011111111111", "64.11888888888889">> :> "141.01999999999998")
  @@ (<<"85.02333333333334", "55.99666666666666">> :> "141.02")

\* a * b
FloatMul ==
  (<<"0.35", "500.0">> :> "175.0")
  @@ (<<"0.36", "450.0">> :> "162.0")
  @@ (<<"1.03", "46.0">> :> "47.38")
  @@ (<<"1.04", "193.0">> :> "200.72")
  @@ (<<"1.23", "157.0">> :> "193.10999999999999")
  @@ (<<"120.11555555555555", "9.0">> :> "1081.04")
  @@ (<<"141.01999999999998", "9.0">> :> "1269.1799999999998")
  @@ (<<"141.02", "9.0">> :> "1269.18")
  @@ (<<"2.99", "193.0">> :> "577.07")
  @@ (<<"20.904444444444444", "9.0">> :> "188.14")
  @@ (<<"3.21", "157.0">> :> "503.96999999999997")
  @@ (<<"4.09", "46.0">> :> "188.14")
  @@ (<<"55.99666666666666", "9.0">> :> "503.96999999999997")
  @@ (<<"64.11888888888889", "9.0">> :> "577.07")
  @@ (<<"76.9011111111111", "9.0">> :> "692.1099999999999")
  @@ (<<"85.02333333333334", "9.0">> :> "765.21")

\* a / b
FloatDiv ==
  (<<"1081.04", "350.0">> :> "3.088685714285714")
  @@ (<<"1269.1799999999998", "396.0">> :> "3.2049999999999996")
  @@ (<<"1269.18", "396.0">> :> "3.205")
  @@ (<<"162.0", "450.0">> :> "0.36")
  @@ (<<"175.0", "500.0">> :> "0.35")
  @@ (<<"188.14", "46.0">> :> "4.09")
  @@ (<<"188.14", "9.0">> :> "20.904444444444444")
  @@ (<<"193.10999999999999", "157.0">> :> "1.23")
  @@ (<<"200.72", "193.0">> :> "1.04")
  @@ (<<"240.48999999999998", "203.0">> :> "1.1846798029556649")
  @@ (<<"248.1", "239.0">> :> "1.0380753138075314")
  @@ (<<"337.0", "950.0">> :> "0.3547368421052632")
  @@ (<<"393.83", "350.0">> :> "1.1252285714285715")
  @@ (<<"441.21", "396.0">> :> "1.1141666666666665")
  @@ (<<"47.38", "46.0">> :> "1.03")
  @@ (<<"503.96999999999997", "157.0">> :> "3.21")
  @@ (<<"503.96999999999997", "9.0">> :> "55.99666666666666")
  @@ (<<"577.07", "193.0">> :> "2.99")
  @@ (<<"577.07", "9.0">> :> "64.11888888888889")
  @@ (<<"692.1099999999999", "203.0">> :> "3.4094088669950735")
  @@ (<<"765.21", "239.0">> :> "3.2017154811715485")

\* round(a, ndigits)
FloatRound ==
  (<<"0.35", 3>> :> "0.35")
  @@ (<<"0.3547368421052632", 3>> :> "0.355")
  @@ (<<"0.36", 3>> :> "0.36")
  @@ (<<"1.03", 2>> :> "1.03")
  @@ (<<"1.0380753138075314", 2>> :> "1.04")
  @@ (<<"1.04", 2>> :> "1.04")
  @@ (<<"1.1141666666666665", 2>> :> "1.11")
  @@ (<<"1.1252285714285715", 2>> :> "1.13")
  @@ (<<"1.1846798029556649", 2>> :> "1.18")
  @@ (<<"1.23", 2>> :> "1.23")
  @@ (<<"2.99", 2>> :> "2.99")
  @@ (<<"3.088685714285714", 2>> :> "3.09")
  @@ (<<"3.2017154811715485", 2>> :> "3.2")
  @@ (<<"3.2049999999999996", 2>> :> "3.2")
  @@ (<<"3.205", 2>> :> "3.21")
  @@ (<<"3.21", 2>> :> "3.21")
  @@ (<<"3.4094088669950735", 2>> :> "3.41")
  @@ (<<"4.09", 2>> :> "4.09")

\* x > 0 for a value of the tables
Positive(x) == x # "0.0"

ZeroTotals ==
  [R |-> 0, HR |-> 0, RBI |-> 0, SB |-> 0, K |-> 0, SV |-> 0, WAR |-> "0.0",
   total_ab |-> "0.0", total_on_base |-> "0.0",
   total_ip |-> "0.0", total_er |-> "0.0", total_wh |-> "0.0"]

\* the loop `for p in self.roster`
RECURSIVE Accumulate(_, _)
Accumulate(acc, roster) ==
  IF roster = <<>> THEN acc
  ELSE LET p == Head(roster)
           s == stats(p)
           next ==
             IF ~p.is_pitcher
             THEN [acc EXCEPT
                     !.R = @ + s.R, !.HR = @ + s.HR,
                     !.RBI = @ + s.RBI, !.SB = @ + s.SB,
                     !.total_ab = IF Positive(s.AB) THEN FloatAdd[<<@, s.AB>>] ELSE @,
                     !.total_on_base =
                        IF Positive(s.AB)
                        THEN FloatAdd[<<@, FloatMul[<<s.OBP, s.AB>>]>>] ELSE @]
             ELSE [acc EXCEPT
                     !.K = @ + s.SO, !.SV = @ + s.SV,
                     !.WAR = FloatAdd[<<@, s.WAR>>],
                     !.total_ip = IF Positive(s.IP) THEN FloatAdd[<<@, s.IP>>] ELSE @,
                     !.total_er =
                        IF Positive(s.IP)
                        THEN FloatAdd[<<@, FloatDiv[<<FloatMul[<<s.ERA, s.IP>>], "9.0">>]>>]
                        ELSE @,
                     !.total_wh =
                        IF Positive(s.IP)
                        THEN FloatAdd[<<@, FloatMul[<<s.WHIP, s.IP>>]>>] ELSE @]
       IN Accumulate(next, Tail(roster))

live_totals(team) ==
  LET a == Accumulate(ZeroTotals, team.roster)
  IN [R |-> a.R, HR |-> a.HR, RBI |-> a.RBI, SB |-> a.SB,
      OBP |-> IF Positive(a.total_ab)
              THEN FloatRound[<<FloatDiv[<<a.total_on_base, a.total_ab>>], 3>>]
              ELSE "0.0",
      K |-> a.K, SV |-> a.SV, WAR |-> a.WAR,
      ERA |-> IF Positive(a.total_ip)
              THEN FloatRound[<<FloatDiv[<<FloatMul[<<a.total_er, "9.0">>], a.total_ip>>], 2>>]
              ELSE "0.0",
      WHIP |-> IF Positive(a.total_ip)
               THEN FloatRound[<<FloatDiv[<<a.total_wh, a.total_ip>>], 2>>]
               ELSE "0.0"]

-----------------------------------------------------------------------------
(* draft_engine.py: DraftEngine *)

TeamKeys(ts) == {ts[i].owner_name : i \in 1..Len(ts)}
TeamIdx(ts, name) == CHOOSE i \in 1..Len(ts) : ts[i].owner_name = name
TeamOf(ts, name) == ts[TeamIdx(ts, name)]

RECURSIVE SumLen(_)
SumLen(ts) == IF ts = <<>> THEN 0 ELSE Len(Head(ts).roster) + SumLen(Tail(ts))

Engine == [bat_df |-> bat_df, pitch_df |-> pitch_df, teams |-> teams]

NewRow == [Status |-> "Available", DraftedBy |-> None]

\* DraftEngine.__init__
NewEngine(team_names) ==
  [bat_df |-> [n \in BatNums |-> NewRow],
   pitch_df |-> [n \in PitchNums |-> NewRow],
   teams |-> [i \in 1..Len(team_names) |-> Team(team_names[i])]]

\* Mask comparing the numbers only, whatever the type of the id
Mask_ByNumber(nums, player_id) == {n \in nums : n = player_id[2]}

\* rows of a pool selected by df['PlayerId'] == player_id
Mask(nums, player_id) == {n \in nums : PlayerId(n) = player_id}

SetRows(df, mask, status, by) ==
  [n \in DOMAIN df |->
     IF n \in mask THEN [Status |-> status, DraftedBy |-> by] ELSE df[n]]

Out(e, ret) == [e |-> e, ret |-> ret]

\* AddToTeam handing the player to the first team of the collection
AddToTeam_FirstTeam(e, n, team_name, is_pitcher) ==
  IF team_name \notin TeamKeys(e.teams)
  THEN Out(e, "KeyError")
  ELSE LET new_player == Player(<<"str", n>>, POS(n), Dollars(n), is_pitcher)
       IN Out([e EXCEPT !.teams[1] = add_player(@, new_player)], "ok")

\* the tail shared by process_pick and process_keeper: build the Player from
\* the row and hand it to self.teams[team_name]
AddToTeam(e, n, team_name, is_pitcher) ==
  IF team_name \notin TeamKeys(e.teams)
  THEN Out(e, "KeyError")
  ELSE LET new_player == Player(ToStr(PlayerId(n)), POS(n), Dollars(n), is_pitcher)
           i == TeamIdx(e.teams, team_name)
       IN Out([e EXCEPT !.teams[i] = add_player(@, new_player)], "ok")

process_keeper(e, player_id, team_name, cost) ==
  LET pm == Mask(PitchNums, player_id)
      bm == Mask(BatNums, player_id)
  IN IF pm # {}
     THEN LET r == AddToTeam([e EXCEPT !.pitch_df = SetRows(@, pm, "Keeper", team_name)],
                             CHOOSE n \in pm : TRUE, team_name, TRUE)
          IN Out(r.e, IF r.ret = "ok" THEN "True" ELSE r.ret)
     ELSE IF bm # {}
     THEN LET r == AddToTeam([e EXCEPT !.bat_df = SetRows(@, bm, "Keeper", team_name)],
                             CHOOSE n \in bm : TRUE, team_name, FALSE)
          IN Out(r.e, IF r.ret = "ok" THEN "True" ELSE r.ret)
     ELSE Out(e, "False")

process_pick(e, player_id, team_name, is_pitcher) ==
  LET m == IF is_pitcher THEN Mask(PitchNums, player_id) ELSE Mask(BatNums, player_id)
  IN IF m = {}
     THEN Out(e, "IndexError")
     ELSE AddToTeam(IF is_pitcher
                    THEN [e EXCEPT !.pitch_df = SetRows(@, m, "Drafted", team_name)]
                    ELSE [e EXCEPT !.bat_df = SetRows(@, m, "Drafted", team_name)],
                    CHOOSE n \in m : TRUE, team_name, is_pitcher)

\* Revert without the test of the row's status
Revert_AnyStatus(e, player_id, required) ==
  LET pm == Mask(PitchNums, player_id)
      bm == Mask(BatNums, player_id)
      tail(e2) == IF e2.teams = <<>> THEN Out(e2, "False")
                  ELSE Out(e2, "AttributeError")
  IN IF pm # {}
     THEN tail([e EXCEPT !.pitch_df = SetRows(@, pm, "Available", None)])
     ELSE IF bm # {}
     THEN tail([e EXCEPT !.bat_df = SetRows(@, bm, "Available", None)])
     ELSE Out(e, "False")

\* undo_pick and remove_keeper differ only in the status they require.
\* Team (models.py) defines no remove_player: the first iteration of the
\* loop over self.teams raises AttributeError, an empty dict falls through
\* to return False.
Revert(e, player_id, required) ==
  LET pm == Mask(PitchNums, player_id)
      bm == Mask(BatNums, player_id)
      tail(e2) == IF e2.teams = <<>> THEN Out(e2, "False")
                  ELSE Out(e2, "AttributeError")
  IN IF pm # {}
     THEN IF e.pitch_df[CHOOSE n \in pm : TRUE].Status = required
          THEN tail([e EXCEPT !.pitch_df = SetRows(@, pm, "Available", None)])
          ELSE Out(e, "False")
     ELSE IF bm # {}
     THEN IF e.bat_df[CHOOSE n \in bm : TRUE].Status = required
          THEN tail([e EXCEPT !.bat_df = SetRows(@, bm, "Available", None)])
          ELSE Out(e, "False")
     ELSE Out(e, "False")

undo_pick(e, player_id) == Revert(e, player_id, "Drafted")

remove_keeper(e, player_id) == Revert(e, player_id, "Keeper")

\* the keys of new_teams in insertion order
RECURSIVE Dedup(_)
Dedup(names) ==
  IF names = <<>> THEN <<>>
  ELSE LET front == Dedup(SubSeq(names, 1, Len(names) - 1))
           x == names[Len(names)]
       IN IF InSeq(x, front) THEN front ELSE Append(front, x)

\* the pool reset of set_team_names for the roster of one removed team
RECURSIVE ResetRoster(_, _)
ResetRoster(e, roster) ==
  IF roster = <<>> THEN e
  ELSE LET player == Head(roster)
           e2 == IF player.is_pitcher
                 THEN [e EXCEPT !.pitch_df =
                         SetRows(@, Mask(PitchNums, player.player_id), "Available", None)]
                 ELSE [e EXCEPT !.bat_df =
                         SetRows(@, Mask(BatNums, player.player_id), "Available", None)]
       IN ResetRoster(e2, Tail(roster))

RECURSIVE ResetRemoved(_, _, _)
ResetRemoved(e, old_teams, new_names) ==
  IF old_teams = <<>> THEN e
  ELSE LET t == Head(old_teams)
           e2 == IF InSeq(t.owner_name, new_names) THEN e
                 ELSE ResetRoster(e, t.roster)
       IN ResetRemoved(e2, Tail(old_teams), new_names)

\* set_team_names building a new Team for every name
set_team_names_AllFresh(e, new_names) ==
  LET keys == Dedup(new_names)
      e2 == ResetRemoved(e, e.teams, new_names)
  IN Out([e2 EXCEPT !.teams = [i \in 1..Len(keys) |-> Team(keys[i])]], "ok")

set_team_names(e, new_names) ==
  LET old_teams == e.teams
      keys == Dedup(new_names)
      new_teams == [i \in 1..Len(keys) |->
                      IF keys[i] \in TeamKeys(old_teams)
                      THEN TeamOf(old_teams, keys[i])
                      ELSE Team(keys[i])]
      e2 == ResetRemoved(e, old_teams, new_names)
  IN Out([e2 EXCEPT !.teams = new_teams], "ok")

\* the keeper entries export_keeper_config collects from one roster
RECURSIVE TeamKeepers(_, _)
TeamKeepers(e, roster) ==
  IF roster = <<>> THEN <<>>
  ELSE LET player == Head(roster)
           m == Mask(IF player.is_pitcher THEN PitchNums ELSE BatNums, player.player_id)
           df == IF player.is_pitcher THEN e.pitch_df ELSE e.bat_df
           rest == TeamKeepers(e, Tail(roster))
       IN IF m # {} /\ df[CHOOSE n \in m : TRUE].Status = "Keeper"
          THEN <<[player_id |-> player.player_id, cost |-> player.dollars]>> \o rest
          ELSE rest

RECURSIVE ExportTeams(_, _)
ExportTeams(e, ts) ==
  IF ts = <<>> THEN <<>>
  ELSE LET team_keepers == TeamKeepers(e, Head(ts).roster)
           rest == ExportTeams(e, Tail(ts))
       IN IF team_keepers # <<>>
          THEN <<[team_name |-> Head(ts).owner_name, keeper_list |-> team_keepers]>> \o rest
          ELSE rest

export_keeper_config(e) ==
  [team_names |-> [i \in 1..Len(e.teams) |-> e.teams[i].owner_name],
   keepers |-> ExportTeams(e, e.teams)]

\* the loop of import_keeper_config over keepers.items(); every call of
\* process_keeper names a team of self.teams, its return value is dropped
RECURSIVE ImportList(_, _, _)
ImportList(e, team_name, keeper_list) ==
  IF keeper_list = <<>> THEN e
  ELSE LET k == Head(keeper_list)
       IN ImportList(process_keeper(e, k.player_id, team_name, k.cost).e,
                     team_name, Tail(keeper_list))

\* the loop without the test for a team that does not exist
RECURSIVE ImportKeepers_NoSkip(_, _)
ImportKeepers_NoSkip(e, items) ==
  IF items = <<>> THEN e
  ELSE LET it == Head(items)
           e2 == ImportList(e, it.team_name, it.keeper_list)
       IN ImportKeepers_NoSkip(e2, Tail(items))

RECURSIVE ImportKeepers(_, _)
ImportKeepers(e, items) ==
  IF items = <<>> THEN e
  ELSE LET it == Head(items)
           e2 == IF it.team_name \notin TeamKeys(e.teams) THEN e
                 ELSE ImportList(e, it.team_name, it.keeper_list)
       IN ImportKeepers(e2, Tail(items))

import_keeper_config(e, config) ==
  IF config.team_names = <<>>
  THEN Out(e, "False")
  ELSE Out(ImportKeepers(set_team_names(e, config.team_names).e, config.keepers),
           "True")

-----------------------------------------------------------------------------
(* draft_simulator.py: DraftSimulator *)

\* further static columns of the pool rows
\* row 1011 has no Name and row 2006 no Team
Name(n) ==
  IF n = 1001 THEN "Bat A" ELSE IF n = 1002 THEN "Bat B"
  ELSE IF n = 1011 THEN None ELSE "Pit X"
MlbTeam(n) ==
  IF n = 1001 THEN "NYY" ELSE IF n = 1002 THEN "BOS"
  ELSE IF n = 2006 THEN None ELSE "LAD"

TOP_N_PLAYERS == 50

\* random_seed=None
NoSeed == -1

\* numpy's process-global generator (np.random.seed / np.random.choice) and
\* a generator owned by one simulator are both a state in 0..RngMod-1:
\* seeding sets the state, a draw reads it and advances it.  Every weight
\* (score + EPSILON) ** SCORE_EXPONENT of simulate_next_pick is positive, so
\* a draw can yield every index of player_scores; which index a given state
\* yields is the fixed function Choice.
RngMod == 8
RngStates == 0..(RngMod - 1)
SeedState(random_seed) == random_seed % RngMod
Adv(g) == (5 * g + 3) % RngMod
Choice(g, n) == (g % n) + 1

\* a simulator: the fields of DraftSimulator; alias tells whether
\* self.engine is the very object the constructor was handed; own_rng and
\* own_match are history: the state a generator owned by this simulator and
\* seeded with random_seed would be in, and whether every draw so far
\* selected what that generator would have selected
NoSim ==
  [live |-> FALSE, alias |-> FALSE, engine |-> NewEngine(<<>>),
   draft_order |-> <<>>, user_team_name |-> None, current_pick_index |-> 0,
   pick_log |-> <<>>, is_paused |-> FALSE, simulation_complete |-> FALSE,
   random_seed |-> NoSeed, own_rng |-> 0, own_match |-> TRUE]

\* SimOut flagging the simulation complete when np.random.choice raised
SimOut_ErrorCompletes(sim, g, ret, picks) ==
  [sim |-> IF ret = "ValueError" THEN [sim EXCEPT !.simulation_complete = TRUE] ELSE sim,
   rng |-> g, ret |-> ret, picks |-> picks]

\* what a call of a simulator method leaves: the simulator, the global
\* generator, the return value or exception, and the picks returned
SimOut(sim, g, ret, picks) == [sim |-> sim, rng |-> g, ret |-> ret, picks |-> picks]

\* the roster loop of _deep_copy_engine for one team
RECURSIVE CopyRoster(_, _)
CopyRoster(new_team, roster) ==
  IF roster = <<>> THEN new_team
  ELSE CopyRoster(add_player(new_team, Head(roster)), Tail(roster))

\* _deep_copy_engine handing back the engine it was given
deep_copy_engine_SameObject(e) == [alias |-> TRUE, e |-> e]

deep_copy_engine(e) ==
  LET team_names == [i \in 1..Len(e.teams) |-> e.teams[i].owner_name]
      new_engine == NewEngine(team_names)
      restore(df) == [n \in DOMAIN df |-> IF df[n].Status = "Keeper" THEN df[n] ELSE NewRow]
  IN [alias |-> FALSE,
      e |-> [bat_df |-> restore(e.bat_df),
             pitch_df |-> restore(e.pitch_df),
             teams |-> [i \in 1..Len(e.teams) |->
                          CopyRoster(new_engine.teams[i], e.teams[i].roster)]]]

Tendencies == {"hitting", "pitching"}

\* _parse_draft_order without the test for duplicated pick numbers
parse_draft_order_NoDuplicateTest(rows) ==
  IF \E i \in 1..(Len(rows) - 1) : rows[i].pick_number > rows[i + 1].pick_number
  THEN "ValueError"
  ELSE IF rows = <<>> THEN "IndexError"
  ELSE IF rows[1].pick_number # 1 THEN "ValueError"
  ELSE IF \E i \in 1..Len(rows) : rows[i].tendency \notin Tendencies
  THEN "ValueError"
  ELSE "ok"

\* _parse_draft_order on the rows read_csv yields; a file with the header
\* only passes is_monotonic_increasing and fails at iloc[0]
parse_draft_order(rows) ==
  IF \E i \in 1..(Len(rows) - 1) : rows[i].pick_number > rows[i + 1].pick_number
  THEN "ValueError"
  ELSE IF rows = <<>> THEN "IndexError"
  ELSE IF rows[1].pick_number # 1 THEN "ValueError"
  ELSE IF \E i, j \in 1..Len(rows) : i < j /\ rows[i].pick_number = rows[j].pick_number
  THEN "ValueError"
  ELSE IF \E i \in 1..Len(rows) : rows[i].tendency \notin Tendencies
  THEN "ValueError"
  ELSE "ok"

\* DraftSimulator.__init__ dropping random_seed
NewSimulator_SeedIgnored(e, draft_order_csv, user_team_name, random_seed, g) ==
  LET copy == deep_copy_engine(e)
      parsed == parse_draft_order(draft_order_csv)
  IN IF parsed # "ok" THEN SimOut(NoSim, g, parsed, <<>>)
     ELSE IF \A i \in 1..Len(draft_order_csv) :
               draft_order_csv[i].player_name # user_team_name
     THEN SimOut(NoSim, g, "ValueError", <<>>)
     ELSE SimOut([live |-> TRUE, alias |-> copy.alias, engine |-> copy.e,
                  draft_order |-> draft_order_csv,
                  user_team_name |-> user_team_name,
                  current_pick_index |-> 0, pick_log |-> <<>>,
                  is_paused |-> FALSE, simulation_complete |-> FALSE,
                  random_seed |-> random_seed,
                  own_rng |-> g, own_match |-> TRUE],
                 g, "ok", <<>>)

\* DraftSimulator.__init__; g is the state of the global generator
NewSimulator(e, draft_order_csv, user_team_name, random_seed, g) ==
  LET copy == deep_copy_engine(e)
      parsed == parse_draft_order(draft_order_csv)
  IN IF parsed # "ok" THEN SimOut(NoSim, g, parsed, <<>>)
     ELSE IF \A i \in 1..Len(draft_order_csv) :
               draft_order_csv[i].player_name # user_team_name
     THEN SimOut(NoSim, g, "ValueError", <<>>)
     ELSE SimOut([live |-> TRUE, alias |-> copy.alias, engine |-> copy.e,
                  draft_order |-> draft_order_csv,
                  user_team_name |-> user_team_name,
                  current_pick_index |-> 0, pick_log |-> <<>>,
                  is_paused |-> FALSE, simulation_complete |-> FALSE,
                  random_seed |-> random_seed,
                  own_rng |-> IF random_seed # NoSeed THEN SeedState(random_seed) ELSE g,
                  own_match |-> TRUE],
                 IF random_seed # NoSeed THEN SeedState(random_seed) ELSE g,
                 "ok", <<>>)

\* get_current_pick_info starting over at the first row past the end
get_current_pick_info_Wraps(sim) ==
  LET row == sim.draft_order[(sim.current_pick_index % Len(sim.draft_order)) + 1]
  IN [is_none |-> FALSE,
      pick_number |-> row.pick_number, team_name |-> row.player_name,
      tendency |-> row.tendency,
      is_user_pick |-> (row.player_name = sim.user_team_name)]

\* get_current_pick_info; current_pick_index counts from 0, is_none tells
\* that None is returned
get_current_pick_info(sim) ==
  IF sim.current_pick_index >= Len(sim.draft_order) THEN [is_none |-> TRUE]
  ELSE LET row == sim.draft_order[sim.current_pick_index + 1]
       IN [is_none |-> FALSE,
           pick_number |-> row.pick_number, team_name |-> row.player_name,
           tendency |-> row.tendency,
           is_user_pick |-> (row.player_name = sim.user_team_name)]

is_user_turn(sim) ==
  LET pick_info == get_current_pick_info(sim)
  IN ~pick_info.is_none /\ pick_info.is_user_pick

LogEntry(pick_info, n, is_pitcher, rationale) ==
  [pick_number |-> pick_info.pick_number, team_name |-> pick_info.team_name,
   player_name |-> Name(n), position |-> POS(n), is_pitcher |-> is_pitcher,
   rationale |-> rationale, dollars |-> Dollars(n)]

\* the tail setting simulation_complete one pick early
Advance_CompletesEarly(sim) ==
  LET idx == sim.current_pick_index + 1
  IN [sim EXCEPT !.current_pick_index = idx,
                 !.simulation_complete = IF idx + 1 >= Len(sim.draft_order) THEN TRUE ELSE @]

\* the tail shared by make_user_pick and simulate_next_pick
Advance(sim) ==
  LET idx == sim.current_pick_index + 1
  IN [sim EXCEPT !.current_pick_index = idx,
                 !.simulation_complete = IF idx >= Len(sim.draft_order) THEN TRUE ELSE @]

\* make_user_pick leaving the pick out of the log
make_user_pick_Unlogged(sim, player_id, is_pitcher, g) ==
  IF ~is_user_turn(sim) THEN SimOut(sim, g, "False", <<>>)
  ELSE LET pick_info == get_current_pick_info(sim)
           r == process_pick(sim.engine, player_id, pick_info.team_name, is_pitcher)
           m == IF is_pitcher THEN Mask(PitchNums, player_id) ELSE Mask(BatNums, player_id)
       IN IF r.ret # "ok"
          THEN SimOut([sim EXCEPT !.engine = r.e], g, r.ret, <<>>)
          ELSE LET entry == LogEntry(pick_info, CHOOSE n \in m : TRUE, is_pitcher,
                                     "User Selection")
                   s2 == [sim EXCEPT !.engine = r.e,
                                     !.is_paused = FALSE]
               IN SimOut(Advance(s2), g, "True", <<>>)

make_user_pick(sim, player_id, is_pitcher, g) ==
  IF ~is_user_turn(sim) THEN SimOut(sim, g, "False", <<>>)
  ELSE LET pick_info == get_current_pick_info(sim)
           r == process_pick(sim.engine, player_id, pick_info.team_name, is_pitcher)
           m == IF is_pitcher THEN Mask(PitchNums, player_id) ELSE Mask(BatNums, player_id)
       IN IF r.ret # "ok"
          THEN SimOut([sim EXCEPT !.engine = r.e], g, r.ret, <<>>)
          ELSE LET entry == LogEntry(pick_info, CHOOSE n \in m : TRUE, is_pitcher,
                                     "User Selection")
                   s2 == [sim EXCEPT !.engine = r.e,
                                     !.pick_log = Append(@, entry),
                                     !.is_paused = FALSE]
               IN SimOut(Advance(s2), g, "True", <<>>)

\* the rows of a pool that have a Name and a Team, whatever their Status
AvailableRows_AnyStatus(df, nums) ==
  {n \in nums : Name(n) # None /\ MlbTeam(n) # None}

\* the Available rows of a pool that have a Name and a Team
AvailableRows(df, nums) ==
  {n \in nums : df[n].Status = "Available" /\ Name(n) # None /\ MlbTeam(n) # None}

has_flex_slots(team) ==
  \E slot \in {"Util", "P", "BN"} : team.slots_filled[slot] < SLOT_LIMITS[slot]

get_needed_positions(team) ==
  {pos \in {"C", "1B", "2B", "3B", "SS", "OF", "SP", "RP"} :
     team.slots_filled[pos] < SLOT_LIMITS[pos]}

\* _has_needed_position accepting every position that is set
has_needed_position_AnyTag(position_str, needed_positions) ==
  position_str # None

has_needed_position(position_str, needed_positions) ==
  /\ position_str # None
  /\ \E i \in 1..Len(position_str) : position_str[i] \in needed_positions

\* rows in the order nlargest(k, 'Dollars') lists them: by Dollars,
\* descending, rows of equal Dollars in pool order
RECURSIVE ByDollars(_)
ByDollars(rows) ==
  IF rows = {} THEN <<>>
  ELSE LET m == CHOOSE x \in rows :
                  \A y \in rows : Dollars(x) > Dollars(y)
                                  \/ (Dollars(x) = Dollars(y) /\ x <= y)
       IN <<m>> \o ByDollars(rows \ {m})

nlargest(k, rows) ==
  LET s == ByDollars(rows)
  IN SubSeq(s, 1, IF Len(s) < k THEN Len(s) ELSE k)

\* player_scores with the positional filter applied whatever the flex slots
player_scores_AlwaysFiltered(e, team_name) ==
  LET team == TeamOf(e.teams, team_name)
      available_batters == AvailableRows(e.bat_df, BatNums)
      available_pitchers == AvailableRows(e.pitch_df, PitchNums)
      needed_positions == get_needed_positions(team)
      filtered_batters ==
        {n \in available_batters : has_needed_position(POS(n), needed_positions)}
      filtered_pitchers ==
        {n \in available_pitchers : has_needed_position(POS(n), needed_positions)}
      filter == /\ needed_positions # {}
                /\ (filtered_batters # {} \/ filtered_pitchers # {})
      bats == nlargest(TOP_N_PLAYERS, IF filter THEN filtered_batters ELSE available_batters)
      pits == nlargest(TOP_N_PLAYERS, IF filter THEN filtered_pitchers ELSE available_pitchers)
  IN [i \in 1..Len(bats) |->
        [n |-> bats[i], player_id |-> PlayerId(bats[i]), is_pitcher |-> FALSE]]
     \o [i \in 1..Len(pits) |->
        [n |-> pits[i], player_id |-> PlayerId(pits[i]), is_pitcher |-> TRUE]]

\* the list player_scores of simulate_next_pick, without the score values
player_scores(e, team_name) ==
  LET team == TeamOf(e.teams, team_name)
      available_batters == AvailableRows(e.bat_df, BatNums)
      available_pitchers == AvailableRows(e.pitch_df, PitchNums)
      needed_positions == get_needed_positions(team)
      filtered_batters ==
        {n \in available_batters : has_needed_position(POS(n), needed_positions)}
      filtered_pitchers ==
        {n \in available_pitchers : has_needed_position(POS(n), needed_positions)}
      filter == /\ ~has_flex_slots(team)
                /\ needed_positions # {}
                /\ (filtered_batters # {} \/ filtered_pitchers # {})
      bats == nlargest(TOP_N_PLAYERS, IF filter THEN filtered_batters ELSE available_batters)
      pits == nlargest(TOP_N_PLAYERS, IF filter THEN filtered_pitchers ELSE available_pitchers)
  IN [i \in 1..Len(bats) |->
        [n |-> bats[i], player_id |-> PlayerId(bats[i]), is_pitcher |-> FALSE]]
     \o [i \in 1..Len(pits) |->
        [n |-> pits[i], player_id |-> PlayerId(pits[i]), is_pitcher |-> TRUE]]

\* simulate_next_pick without the test for the user's turn
simulate_next_pick_NoUserTest(sim, g) ==
  IF sim.current_pick_index >= Len(sim.draft_order)
  THEN SimOut([sim EXCEPT !.simulation_complete = TRUE], g, "None", <<>>)
  ELSE LET pick_info == get_current_pick_info(sim)
           team_name == pick_info.team_name
       IN IF team_name \notin TeamKeys(sim.engine.teams)
          THEN SimOut(sim, g, "KeyError", <<>>)
          ELSE LET ps == player_scores(sim.engine, team_name)
               IN IF ps = <<>>
                  THEN SimOut(sim, g, "ValueError", <<>>)
                  ELSE LET selected_player == ps[Choice(g, Len(ps))]
                           own == ps[Choice(sim.own_rng, Len(ps))]
                           r == process_pick(sim.engine, selected_player.player_id,
                                             team_name, selected_player.is_pitcher)
                           pick_log_entry == LogEntry(pick_info, selected_player.n,
                                                      selected_player.is_pitcher, "AI")
                           s2 == [sim EXCEPT
                                    !.engine = r.e,
                                    !.pick_log = Append(@, pick_log_entry),
                                    !.own_rng = Adv(@),
                                    !.own_match = @ /\ (selected_player = own)]
                       IN SimOut(Advance(s2), Adv(g), "pick", <<pick_log_entry>>)

\* simulate_next_pick; g is the state of the global generator.  The lookup
\* self.engine.teams[team_name] of _has_flex_slots raises KeyError before
\* anything is written; np.random.choice raises ValueError on an empty
\* player_scores without drawing.  player_scores and the selected player are
\* bound once, as the locals of the method are.
simulate_next_pick(sim, g) ==
  IF sim.current_pick_index >= Len(sim.draft_order)
  THEN SimOut([sim EXCEPT !.simulation_complete = TRUE], g, "None", <<>>)
  ELSE LET pick_info == get_current_pick_info(sim)
           team_name == pick_info.team_name
           Pick(ps, selected_player, own) ==
             LET r == process_pick(sim.engine, selected_player.player_id,
                                   team_name, selected_player.is_pitcher)
                 pick_log_entry == LogEntry(pick_info, selected_player.n,
                                            selected_player.is_pitcher, "AI")
                 s2 == [sim EXCEPT
                          !.engine = r.e,
                          !.pick_log = Append(@, pick_log_entry),
                          !.own_rng = Adv(@),
                          !.own_match = @ /\ (selected_player = own)]
             IN SimOut(Advance(s2), Adv(g), "pick", <<pick_log_entry>>)
           Select(ps) ==
             IF ps = <<>>
             THEN SimOut(sim, g, "ValueError", <<>>)
             ELSE CHOOSE out \in {Pick(ps, selected_player, own) :
                                    selected_player \in {ps[Choice(g, Len(ps))]},
                                    own \in {ps[Choice(sim.own_rng, Len(ps))]}} : TRUE
       IN IF pick_info.is_user_pick
          THEN SimOut([sim EXCEPT !.is_paused = TRUE], g, "None", <<>>)
          ELSE IF team_name \notin TeamKeys(sim.engine.teams)
          THEN SimOut(sim, g, "KeyError", <<>>)
          ELSE CHOOSE out \in {Select(ps) :
                                 ps \in {player_scores(sim.engine, team_name)}} : TRUE

\* the loop running while not self.simulation_complete only
RECURSIVE UntilLoop_IgnoresPause(_, _, _, _)
UntilLoop_IgnoresPause(sim, g, simulated_picks, fuel) ==
  IF sim.simulation_complete
  THEN SimOut(sim, g, "returned", simulated_picks)
  ELSE IF fuel = 0
  THEN SimOut(sim, g, "running", simulated_picks)
  ELSE LET r == simulate_next_pick(sim, g)
       IN IF r.ret \in {"KeyError", "ValueError"}
          THEN SimOut(r.sim, r.rng, r.ret, <<>>)
          ELSE UntilLoop_IgnoresPause(r.sim, r.rng, simulated_picks \o r.picks, fuel - 1)

\* the while loop of simulate_until_user_or_complete, at most fuel
\* iterations of it: "returned" when the loop condition ended it, "running"
\* when the iterations ran out first; an exception leaves with no list
RECURSIVE UntilLoop(_, _, _, _)
UntilLoop(sim, g, simulated_picks, fuel) ==
  IF sim.is_paused \/ sim.simulation_complete
  THEN SimOut(sim, g, "returned", simulated_picks)
  ELSE IF fuel = 0
  THEN SimOut(sim, g, "running", simulated_picks)
  ELSE CHOOSE out \in
         {IF r.ret \in {"KeyError", "ValueError"}
          THEN SimOut(r.sim, r.rng, r.ret, <<>>)
          ELSE UntilLoop(r.sim, r.rng, simulated_picks \o r.picks, fuel - 1) :
            r \in {simulate_next_pick(sim, g)}} : TRUE

\* every iteration that does not end the loop advances current_pick_index,
\* so Len(draft_order) + 1 iterations are enough for any terminating call
simulate_until_user_or_complete(sim, g) ==
  UntilLoop(sim, g, <<>>, Len(sim.draft_order) + 1)

-----------------------------------------------------------------------------
(* The calls *)

NoCall == [op |-> "init", player_id |-> <<"str", 0>>, team_name |-> None,
           is_pitcher |-> FALSE, cost |-> 0, new_names |-> <<>>,
           keepers |-> <<>>, ret |-> "ok",
           sim |-> 0, draft_order |-> <<>>, user_team_name |-> None,
           random_seed |-> NoSeed, picks |-> <<>>]

SimIds == {1, 2}
NoSims == [i \in SimIds |-> NoSim]

Apply(r, call) ==
  /\ SumLen(r.e.teams) <= MaxRoster
  /\ bat_df' = r.e.bat_df
  /\ pitch_df' = r.e.pitch_df
  /\ teams' = r.e.teams
  /\ last' = [call EXCEPT !.ret = r.ret]
  /\ pre' = Engine
  /\ UNCHANGED <<idType, poolRows, sims, rng, spre>>

ProcessPick ==
  \E id \in ArgIds, t \in TeamNames, p \in BOOLEAN :
    Apply(process_pick(Engine, id, t, p),
          [NoCall EXCEPT !.op = "process_pick", !.player_id = id,
                         !.team_name = t, !.is_pitcher = p])

ProcessKeeper ==
  \E id \in ArgIds, t \in TeamNames, c \in Costs :
    Apply(process_keeper(Engine, id, t, c),
          [NoCall EXCEPT !.op = "process_keeper", !.player_id = id,
                         !.team_name = t, !.cost = c])

UndoPick ==
  \E id \in ArgIds :
    Apply(undo_pick(Engine, id),
          [NoCall EXCEPT !.op = "undo_pick", !.player_id = id])

RemoveKeeper ==
  \E id \in ArgIds :
    Apply(remove_keeper(Engine, id),
          [NoCall EXCEPT !.op = "remove_keeper", !.player_id = id])

NameLists == {<<>>} \cup {<<a>> : a \in TeamNames}
               \cup {<<a, b>> : a \in TeamNames, b \in TeamNames}

SetTeamNames ==
  \E names \in NameLists :
    Apply(set_team_names(Engine, names),
          [NoCall EXCEPT !.op = "set_team_names", !.new_names = names])

\* keeper configurations: ids as a JSON file written from an export holds
\* them (strings), at most one entry per team, teams in the order T1, T2
ConfigNames == {<<>>, <<"T1">>, <<"T1", "T2">>}
ConfigEntries == {[player_id |-> <<"str", n>>, cost |-> c] : n \in ArgNums, c \in Costs}
ConfigLists == {<<>>} \cup {<<k>> : k \in ConfigEntries}
ConfigKeepers ==
  {<<>>}
  \cup {<<[team_name |-> t, keeper_list |-> l]>> : t \in TeamNames, l \in ConfigLists \ {<<>>}}
  \cup {<<[team_name |-> "T1", keeper_list |-> l1], [team_name |-> "T2", keeper_list |-> l2]>> :
          l1 \in ConfigLists \ {<<>>}, l2 \in ConfigLists \ {<<>>}}

ImportKeeperConfig ==
  \E names \in ConfigNames, ks \in ConfigKeepers :
    Apply(import_keeper_config(Engine, [team_names |-> names, keepers |-> ks]),
          [NoCall EXCEPT !.op = "import_keeper_config", !.new_names = names,
                         !.keepers = ks])

\* the pools the loader builds: data_loader casts PlayerId to str
Init ==
  /\ idType = "str"
  /\ poolRows = SmallPool
  /\ bat_df = NewEngine(InitTeamNames).bat_df
  /\ pitch_df = NewEngine(InitTeamNames).pitch_df
  /\ teams = NewEngine(InitTeamNames).teams
  /\ last = NoCall
  /\ pre = NewEngine(InitTeamNames)
  /\ sims = NoSims
  /\ rng = 0
  /\ spre = [sims |-> NoSims, rng |-> 0]

Next ==
  \/ ProcessPick
  \/ ProcessKeeper
  \/ UndoPick
  \/ RemoveKeeper
  \/ SetTeamNames
  \/ ImportKeeperConfig

Spec == Init /\ [][Next]_vars

\* the pools of test_keeper_with_int_playerid: PlayerId is an integer column
InitIntPool ==
  /\ idType = "int"
  /\ poolRows = SmallPool
  /\ bat_df = NewEngine(InitTeamNames).bat_df
  /\ pitch_df = NewEngine(InitTeamNames).pitch_df
  /\ teams = NewEngine(InitTeamNames).teams
  /\ last = NoCall
  /\ pre = NewEngine(InitTeamNames)
  /\ sims = NoSims
  /\ rng = 0
  /\ spre = [sims |-> NoSims, rng |-> 0]

SpecIntPool == InitIntPool /\ [][Next]_vars

-----------------------------------------------------------------------------
(* The allocator on its own: one team, players handed to add_player *)

AllocPlayers ==
  { Player(<<"str", 1>>, <<"C">>, 12, FALSE),
    Player(<<"str", 2>>, <<"C", "OF">>, 30, FALSE),
    Player(<<"str", 3>>, <<"SP">>, 25, TRUE) }

InitAlloc ==
  /\ idType = "str"
  /\ poolRows = SmallPool
  /\ bat_df = NewEngine(<<"T1">>).bat_df
  /\ pitch_df = NewEngine(<<"T1">>).pitch_df
  /\ teams = NewEngine(<<"T1">>).teams
  /\ last = NoCall
  /\ pre = NewEngine(<<"T1">>)
  /\ sims = NoSims
  /\ rng = 0
  /\ spre = [sims |-> NoSims, rng |-> 0]

\* team.add_player(player) for a player of the set, on rosters below max
AddPlayerFrom(players, max) ==
  \E player \in players :
    /\ Len(teams[1].roster) < max
    /\ teams' = [teams EXCEPT ![1] = add_player(@, player)]
    /\ last' = [NoCall EXCEPT !.op = "add_player", !.player_id = player.player_id,
                              !.is_pitcher = player.is_pitcher]
    /\ pre' = Engine
    /\ UNCHANGED <<idType, poolRows, bat_df, pitch_df, sims, rng, spre>>

AddPlayer == AddPlayerFrom(AllocPlayers, MaxAllocRoster)

NextAlloc == AddPlayer

SpecAlloc == InitAlloc /\ [][NextAlloc]_vars

\* the allocator on short rosters of more kinds of player: tags in either
\* order, a tag that names no slot, no position at all, relievers
FitPlayers ==
  { Player(<<"str", 1>>, <<"C">>, 12, FALSE),
    Player(<<"str", 2>>, <<"C", "OF">>, 30, FALSE),
    Player(<<"str", 3>>, <<"OF", "C">>, 28, FALSE),
    Player(<<"str", 4>>, <<"DH">>, 9, FALSE),
    Player(<<"str", 5>>, None, 1, FALSE),
    Player(<<"str", 6>>, <<"SP">>, 25, TRUE),
    Player(<<"str", 7>>, <<"SP", "RP">>, 8, TRUE),
    Player(<<"str", 8>>, None, 1, TRUE) }

FitAddPlayer == AddPlayerFrom(FitPlayers, MaxFitRoster)

NextFit == FitAddPlayer

SpecFit == InitAlloc /\ [][NextFit]_vars

\* players whose POS lists the name of a slot that is not a batting slot: a
\* two-way player of the batter pool (DH/SP), a batter listed as IL, and a
\* catcher and a starter beside them
TagPlayers ==
  { Player(<<"str", 1>>, <<"C">>, 12, FALSE),
    Player(<<"str", 2>>, <<"DH", "SP">>, 40, FALSE),
    Player(<<"str", 3>>, <<"IL">>, 2, FALSE),
    Player(<<"str", 4>>, <<"SP">>, 25, TRUE),
    Player(<<"str", 5>>, <<"SP", "OF">>, 8, TRUE) }

TagAddPlayer == AddPlayerFrom(TagPlayers, MaxFitRoster)

NextTags == TagAddPlayer

SpecTags == InitAlloc /\ [][NextTags]_vars

\* rosters of players with statistics, each added once, in every order
LivePlayers ==
  { Player(<<"str", 1001>>, <<"C", "OF">>, 30, FALSE),
    Player(<<"str", 1002>>, <<"C">>, 20, FALSE),
    Player(<<"str", 2001>>, <<"SP">>, 25, TRUE),
    Player(<<"str", 2002>>, <<"RP">>, 8, TRUE),
    Player(<<"str", 2003>>, <<"SP">>, 22, TRUE) }

Rostered == {teams[1].roster[i] : i \in 1..Len(teams[1].roster)}

LiveAddPlayer == AddPlayerFrom(LivePlayers \ Rostered, Cardinality(LivePlayers))

NextLive == LiveAddPlayer

SpecLive == InitAlloc /\ [][NextLive]_vars

-----------------------------------------------------------------------------
(* One simulator built from an engine and driven call by call *)

OrderRow(pick_number, player_name, tendency) ==
  [player_name |-> player_name, pick_number |-> pick_number, tendency |-> tendency]

\* draft orders _parse_draft_order accepts
ValidOrders ==
  { <<OrderRow(1, "T1", "hitting"), OrderRow(2, "T2", "pitching")>>,
    <<OrderRow(1, "T2", "pitching"), OrderRow(2, "T1", "hitting"),
      OrderRow(3, "T2", "hitting")>>,
    <<OrderRow(1, "T1", "hitting"), OrderRow(3, "T2", "pitching")>> }

\* draft orders with one defect each: no row, first pick not 1, a pick
\* number twice, pick numbers decreasing, an unknown tendency
InvalidOrders ==
  { <<>>,
    <<OrderRow(2, "T1", "hitting"), OrderRow(3, "T2", "pitching")>>,
    <<OrderRow(1, "T1", "hitting"), OrderRow(1, "T2", "pitching")>>,
    <<OrderRow(2, "T1", "hitting"), OrderRow(1, "T2", "pitching")>>,
    <<OrderRow(1, "T1", "both"), OrderRow(2, "T2", "pitching")>> }

Orders == ValidOrders \cup InvalidOrders
Users == {"T1", "T2", "T3"}
\* 42 is the seed the page offers (app.py)
Seeds == {NoSeed, 42}

\* engines a simulator is built from: new, with a keeper, with a drafted
\* player, and with T1 as its only team
SimSources ==
  { NewEngine(InitTeamNames),
    process_keeper(NewEngine(InitTeamNames), <<"str", 1001>>, "T1", 15).e,
    process_pick(NewEngine(InitTeamNames), <<"str", 2001>>, "T2", TRUE).e,
    NewEngine(<<"T1">>) }

\* the outcome r of a call on simulator i; a simulator whose engine is the
\* object it was built from writes to that engine
ApplySim(i, r, call) ==
  /\ sims' = [sims EXCEPT ![i] = r.sim]
  /\ rng' = r.rng
  /\ spre' = [sims |-> sims, rng |-> rng]
  /\ last' = [call EXCEPT !.sim = i, !.ret = r.ret, !.picks = r.picks]
  /\ pre' = Engine
  /\ IF r.sim.alias
     THEN /\ bat_df' = r.sim.engine.bat_df
          /\ pitch_df' = r.sim.engine.pitch_df
          /\ teams' = r.sim.engine.teams
     ELSE UNCHANGED <<bat_df, pitch_df, teams>>
  /\ UNCHANGED <<idType, poolRows>>

Construct(i, orders, users, seeds) ==
  \E o \in orders, u \in users, sd \in seeds :
    /\ ~sims[i].live
    /\ ApplySim(i, NewSimulator(Engine, o, u, sd, rng),
                [NoCall EXCEPT !.op = "DraftSimulator", !.draft_order = o,
                               !.user_team_name = u, !.random_seed = sd])

MakeUserPick(i) ==
  \E id \in ArgIds, p \in BOOLEAN :
    /\ sims[i].live
    /\ ApplySim(i, make_user_pick(sims[i], id, p, rng),
                [NoCall EXCEPT !.op = "make_user_pick", !.player_id = id,
                               !.is_pitcher = p])

SimulateNextPick(i) ==
  /\ sims[i].live
  /\ ApplySim(i, simulate_next_pick(sims[i], rng),
              [NoCall EXCEPT !.op = "simulate_next_pick"])

SimulateUntil(i) ==
  /\ sims[i].live
  /\ ApplySim(i, simulate_until_user_or_complete(sims[i], rng),
              [NoCall EXCEPT !.op = "simulate_until_user_or_complete"])

\* the generator of a process that has not seeded it is in any state
InitSim ==
  /\ idType = "str"
  /\ poolRows = SmallPool
  /\ \E e \in SimSources :
       /\ bat_df = e.bat_df
       /\ pitch_df = e.pitch_df
       /\ teams = e.teams
       /\ pre = e
  /\ last = NoCall
  /\ sims = NoSims
  /\ rng \in RngStates
  /\ spre = [sims |-> NoSims, rng |-> rng]

SimConstruct == Construct(1, Orders, Users, Seeds)
SimMakeUserPick == MakeUserPick(1)
SimNextPick == SimulateNextPick(1)
SimUntil == SimulateUntil(1)

NextSim ==
  \/ SimConstruct
  \/ SimMakeUserPick
  \/ SimNextPick
  \/ SimUntil

SpecSim == InitSim /\ [][NextSim]_vars

-----------------------------------------------------------------------------
(* Two simulators of one process, built from the same engine, their calls *)
(* interleaved in any order                                               *)

TwoOrders ==
  { <<OrderRow(1, "T2", "pitching"), OrderRow(2, "T1", "hitting"),
      OrderRow(3, "T2", "hitting")>> }
TwoUsers == {"T1"}

InitTwo ==
  /\ idType = "str"
  /\ poolRows = SmallPool
  /\ bat_df = NewEngine(InitTeamNames).bat_df
  /\ pitch_df = NewEngine(InitTeamNames).pitch_df
  /\ teams = NewEngine(InitTeamNames).teams
  /\ pre = NewEngine(InitTeamNames)
  /\ last = NoCall
  /\ sims = NoSims
  /\ rng \in RngStates
  /\ spre = [sims |-> NoSims, rng |-> rng]

TwoConstruct == \E i \in SimIds : Construct(i, TwoOrders, TwoUsers, Seeds)
TwoMakeUserPick == \E i \in SimIds : MakeUserPick(i)
TwoNextPick == \E i \in SimIds : SimulateNextPick(i)
TwoUntil == \E i \in SimIds : SimulateUntil(i)

NextTwo ==
  \/ TwoConstruct
  \/ TwoMakeUserPick
  \/ TwoNextPick
  \/ TwoUntil

SpecTwoSims == InitTwo /\ [][NextTwo]_vars

-----------------------------------------------------------------------------
(* A run repeated: simulator 2 is built from the same engine with the      *)
(* arguments simulator 1 was built with, and simulator 1 is left alone     *)
(* from then on                                                            *)

RepSources == {e \in SimSources : TeamKeys(e.teams) = TeamNames}
RepUsers == {"T1", "T2"}

InitRepeat ==
  /\ idType = "str"
  /\ poolRows = SmallPool
  /\ \E e \in RepSources :
       /\ bat_df = e.bat_df
       /\ pitch_df = e.pitch_df
       /\ teams = e.teams
       /\ pre = e
  /\ last = NoCall
  /\ sims = NoSims
  /\ rng \in RngStates
  /\ spre = [sims |-> NoSims, rng |-> rng]

Running(i) == i = 1 => ~sims[2].live

RepConstructFirst == Construct(1, ValidOrders, RepUsers, Seeds)

RepConstructSecond ==
  /\ sims[1].live
  /\ Construct(2, {sims[1].draft_order}, {sims[1].user_team_name},
               {sims[1].random_seed})

RepMakeUserPick == \E i \in SimIds : Running(i) /\ MakeUserPick(i)
RepNextPick == \E i \in SimIds : Running(i) /\ SimulateNextPick(i)
RepUntil == \E i \in SimIds : Running(i) /\ SimulateUntil(i)

NextRepeat ==
  \/ RepConstructFirst
  \/ RepConstructSecond
  \/ RepMakeUserPick
  \/ RepNextPick
  \/ RepUntil

SpecRepeat == InitRepeat /\ [][NextRepeat]_vars

-----------------------------------------------------------------------------
(* One simulator on pools with two catchers and a starting pitcher: the   *)
(* AI team T2 picks twice before or around the user's turn                *)

GatePool == [bat |-> {1001, 1002}, pitch |-> {2001}]

GateOrders ==
  { <<OrderRow(1, "T2", "pitching"), OrderRow(2, "T1", "hitting"),
      OrderRow(3, "T2", "hitting")>>,
    <<OrderRow(1, "T2", "hitting"), OrderRow(2, "T2", "pitching"),
      OrderRow(3, "T1", "hitting")>> }

InitGate ==
  /\ idType = "str"
  /\ poolRows = GatePool
  /\ bat_df = NewEngine(InitTeamNames).bat_df
  /\ pitch_df = NewEngine(InitTeamNames).pitch_df
  /\ teams = NewEngine(InitTeamNames).teams
  /\ pre = NewEngine(InitTeamNames)
  /\ last = NoCall
  /\ sims = NoSims
  /\ rng \in RngStates
  /\ spre = [sims |-> NoSims, rng |-> rng]

GateConstruct == Construct(1, GateOrders, TwoUsers, Seeds)

NextGate ==
  \/ GateConstruct
  \/ SimMakeUserPick
  \/ SimNextPick
  \/ SimUntil

SpecGate == InitGate /\ [][NextGate]_vars

-----------------------------------------------------------------------------
(* One simulator built from an engine whose team T2 has no flexible slot   *)
(* left: nine catchers and four starters are its keepers                   *)

FullPool == [bat |-> 1001..1011, pitch |-> 2001..2006]

FullKeepers == <<1002, 1003, 1004, 1005, 1006, 1007, 1008, 1009, 1010,
                 2001, 2002, 2003, 2004>>

FullOrders ==
  { <<OrderRow(1, "T2", "hitting"), OrderRow(2, "T2", "pitching"),
      OrderRow(3, "T1", "hitting")>>,
    <<OrderRow(1, "T2", "pitching"), OrderRow(2, "T2", "hitting"),
      OrderRow(3, "T2", "hitting"), OrderRow(4, "T1", "hitting")>> }

InitFull ==
  /\ idType = "str"
  /\ poolRows = FullPool
  /\ bat_df = NewEngine(InitTeamNames).bat_df
  /\ pitch_df = NewEngine(InitTeamNames).pitch_df
  /\ teams = NewEngine(InitTeamNames).teams
  /\ pre = NewEngine(InitTeamNames)
  /\ last = NoCall
  /\ sims = NoSims
  /\ rng \in RngStates
  /\ spre = [sims |-> NoSims, rng |-> rng]

\* the keepers of the list that are not yet on T2
ToKeep ==
  {k \in 1..Len(FullKeepers) :
     LET n == FullKeepers[k]
     IN (IF n \in PitchNums THEN pitch_df[n] ELSE bat_df[n]).Status = "Available"}

\* process_keeper(player, 'T2') for the next keeper of the list
FullKeep ==
  /\ ToKeep # {}
  /\ LET k == CHOOSE i \in ToKeep : \A j \in ToKeep : i <= j
         id == <<"str", FullKeepers[k]>>
         r == process_keeper(Engine, id, "T2", 0)
     IN /\ bat_df' = r.e.bat_df
        /\ pitch_df' = r.e.pitch_df
        /\ teams' = r.e.teams
        /\ last' = [NoCall EXCEPT !.op = "process_keeper", !.player_id = id,
                                  !.team_name = "T2", !.ret = r.ret]
        /\ pre' = Engine
        /\ UNCHANGED <<idType, poolRows, sims, rng, spre>>

\* the simulator is built once every keeper is on T2
FullConstruct == ToKeep = {} /\ Construct(1, FullOrders, TwoUsers, Seeds)

NextFull ==
  \/ FullKeep
  \/ FullConstruct
  \/ SimNextPick
  \/ SimUntil

SpecFull == InitFull /\ [][NextFull]_vars

-----------------------------------------------------------------------------
(* One simulator on pools with more rows than TOP_N_PLAYERS: fifty named  *)
(* batters and a pitcher                                                   *)

BigPool == [bat |-> 1001..1051, pitch |-> {2001}]

InitBig ==
  /\ idType = "str"
  /\ poolRows = BigPool
  /\ bat_df = NewEngine(InitTeamNames).bat_df
  /\ pitch_df = NewEngine(InitTeamNames).pitch_df
  /\ teams = NewEngine(InitTeamNames).teams
  /\ pre = NewEngine(InitTeamNames)
  /\ last = NoCall
  /\ sims = NoSims
  /\ rng \in RngStates
  /\ spre = [sims |-> NoSims, rng |-> rng]

BigConstruct == Construct(1, FullOrders, TwoUsers, Seeds)

NextBig ==
  \/ BigConstruct
  \/ SimNextPick
  \/ SimUntil

SpecBig == InitBig /\ [][NextBig]_vars

-----------------------------------------------------------------------------
(* One simulator driven by a caller that answers the user's turn with a    *)
(* pick of an Available player and keeps invoking the simulation           *)

\* the draft orders of GateOrders and one that names a team, T3, that the
\* engine has not
DraftOrders ==
  GateOrders \cup {<<OrderRow(1, "T1", "hitting"), OrderRow(2, "T3", "pitching")>>}

DraftConstruct == Construct(1, DraftOrders, TwoUsers, Seeds)

\* the pick the page offers: an Available row of the simulator's pools, with
\* the flag of its pool
DraftUserPick ==
  \E n \in BatNums \cup PitchNums :
    /\ sims[1].live
    /\ is_user_turn(sims[1])
    /\ (IF n \in PitchNums THEN sims[1].engine.pitch_df[n]
                           ELSE sims[1].engine.bat_df[n]).Status = "Available"
    /\ ApplySim(1, make_user_pick(sims[1], PlayerId(n), n \in PitchNums, rng),
                [NoCall EXCEPT !.op = "make_user_pick", !.player_id = PlayerId(n),
                               !.is_pitcher = (n \in PitchNums)])

NextDraft ==
  \/ DraftConstruct
  \/ DraftUserPick
  \/ SimNextPick
  \/ SimUntil

\* the caller goes on: every call that stays possible is made
SpecDraft ==
  /\ InitGate
  /\ [][NextDraft]_vars
  /\ WF_vars(DraftUserPick)
  /\ WF_vars(SimNextPick)
  /\ WF_vars(SimUntil)

-----------------------------------------------------------------------------
(* Vocabulary of the properties *)

Nums == BatNums \cup PitchNums

Row(e, n) == IF n \in PitchNums THEN e.pitch_df[n] ELSE e.bat_df[n]

\* the entries of a roster that are player n
Entries(team, n) == {i \in 1..Len(team.roster) : team.roster[i].player_id = <<"str", n>>}

OnRoster(team, n) == Entries(team, n) # {}

RECURSIVE SumFilled(_, _)
SumFilled(sf, slots) ==
  IF slots = {} THEN 0
  ELSE LET k == CHOOSE x \in slots : TRUE IN sf[k] + SumFilled(sf, slots \ {k})

Failed(ret) == ret \in {"False", "KeyError", "IndexError", "AttributeError"}

\* the pool rows a call looks the id up in
Consulted(call) ==
  IF call.op \in {"process_pick", "make_user_pick"}
  THEN IF call.is_pitcher THEN PitchNums ELSE BatNums
  ELSE Nums

\* the row the call's player id names in the pools the call consults
Names(call, n) == n \in Consulted(call) /\ call.player_id = PlayerId(n)

-----------------------------------------------------------------------------
(* C1 .. C10 *)

\* C1: process_pick(X, T) on an Available X and an existing T, immediately
\* followed by undo_pick(X), succeeds and restores X's row, T's roster
\* membership and T's fill-counts to what they were before the pick.
C1_PickUndoRoundTrip ==
  [][\A n \in Nums, t \in TeamNames :
       ( /\ last.op = "process_pick" /\ last.ret = "ok"
         /\ Names(last, n) /\ last.team_name = t
         /\ Row(pre, n).Status = "Available"
         /\ t \in TeamKeys(pre.teams)
         /\ last'.op = "undo_pick" /\ last'.player_id = last.player_id )
       => /\ last'.ret = "True"
          /\ Row(Engine, n)' = Row(pre, n)
          /\ t \in TeamKeys(teams')
          /\ OnRoster(TeamOf(teams', t), n) = OnRoster(TeamOf(pre.teams, t), n)
          /\ TeamOf(teams', t).slots_filled = TeamOf(pre.teams, t).slots_filled
    ]_vars

\* C2: every row's status is Available, Drafted or Keeper; Available rows
\* have no drafted-by, Drafted and Keeper rows name a team of the collection.
C2_StatusConsistent ==
  \A n \in Nums :
    LET r == Row(Engine, n)
    IN /\ r.Status \in {"Available", "Drafted", "Keeper"}
       /\ r.Status = "Available" => r.DraftedBy = None
       /\ r.Status \in {"Drafted", "Keeper"} => r.DraftedBy \in TeamKeys(teams)

\* C3: for every team and every slot of SLOT_LIMITS the fill-count is at
\* most the slot's capacity, also once the roster has overflowed.
C3_FillWithinCapacity ==
  \A i \in 1..Len(teams) : \A k \in Slots :
    teams[i].slots_filled[k] <= SLOT_LIMITS[k]

\* an add_player call that found every slot it may use full: the roster grew,
\* no fill-count moved
C3_Witness ==
  /\ last.op = "add_player"
  /\ Len(teams[1].roster) = Len(pre.teams[1].roster) + 1
  /\ teams[1].slots_filled = pre.teams[1].slots_filled
  /\ teams[1].slots_filled["BN"] = SLOT_LIMITS["BN"]

\* C4: process_pick and process_keeper on a player that is already Drafted
\* or Keeper are rejected and change nothing.
C4_RequiresAvailable ==
  \A n \in Nums :
    ( /\ last.op \in {"process_pick", "process_keeper"}
      /\ Names(last, n)
      /\ Row(pre, n).Status \in {"Drafted", "Keeper"} )
    => (Failed(last.ret) /\ Engine = pre)

\* C5: process_pick and process_keeper naming a team that is not in the
\* collection fail and change nothing.
C5_UnknownTeamNoChange ==
  ( /\ last.op \in {"process_pick", "process_keeper"}
    /\ last.team_name \notin TeamKeys(pre.teams) )
  => (Failed(last.ret) /\ Engine = pre)

\* C6: undo_pick on a player that is not Drafted, and remove_keeper on a
\* player that is not Keeper, report failure and change nothing.
C6_WrongStatusRejected ==
  \A n \in Nums :
    ( /\ Names(last, n)
      /\ \/ last.op = "undo_pick" /\ Row(pre, n).Status # "Drafted"
         \/ last.op = "remove_keeper" /\ Row(pre, n).Status # "Keeper" )
    => (last.ret = "False" /\ Engine = pre)

\* undo_pick was refused on a Keeper
C6_Witness ==
  \E n \in Nums :
    /\ last.op = "undo_pick" /\ Names(last, n)
    /\ Row(pre, n).Status = "Keeper"
    /\ last.ret = "False" /\ Engine = pre

\* C7: remove_keeper on a Keeper succeeds, makes the row Available with no
\* drafted-by, takes the player off the owning team's roster and gives the
\* slot back.
C7_RemoveKeeperReverts ==
  \A n \in Nums :
    ( /\ last.op = "remove_keeper" /\ Names(last, n)
      /\ Row(pre, n).Status = "Keeper"
      /\ Row(pre, n).DraftedBy \in TeamKeys(pre.teams)
      /\ OnRoster(TeamOf(pre.teams, Row(pre, n).DraftedBy), n) )
    => LET t == Row(pre, n).DraftedBy
       IN /\ last.ret = "True"
          /\ Row(Engine, n) = NewRow
          /\ t \in TeamKeys(teams)
          /\ Cardinality(Entries(TeamOf(teams, t), n))
               = Cardinality(Entries(TeamOf(pre.teams, t), n)) - 1
          /\ SumFilled(TeamOf(teams, t).slots_filled, Slots)
               = SumFilled(TeamOf(pre.teams, t).slots_filled, Slots) - 1

\* C8: process_pick, process_keeper, undo_pick and remove_keeper given a
\* player id that is in none of the pools they consult end in a failure and
\* change nothing.
C8_AbsentPlayerNoChange ==
  ( /\ last.op \in {"process_pick", "process_keeper", "undo_pick", "remove_keeper"}
    /\ \A n \in Nums : ~Names(last, n) )
  => (last.ret \in {"False", "IndexError"} /\ Engine = pre)

\* process_pick was given a batter's id with the pitcher flag
C8_Witness ==
  /\ last.op = "process_pick" /\ last.is_pitcher
  /\ \E n \in BatNums : last.player_id = PlayerId(n)
  /\ last.ret = "IndexError" /\ Engine = pre

\* C9: a successful process_pick(X, T) makes X Drafted by T, appends X with
\* the row's dollar value as the last entry of T's roster, and leaves every
\* other row and every other team as it was.
C9_PickFrame ==
  \A n \in Nums, t \in TeamNames :
    ( /\ last.op = "process_pick" /\ last.ret = "ok"
      /\ Names(last, n) /\ last.team_name = t )
    => /\ Row(Engine, n) = [Status |-> "Drafted", DraftedBy |-> t]
       /\ \A m \in Nums \ {n} : Row(Engine, m) = Row(pre, m)
       /\ Len(teams) = Len(pre.teams)
       /\ \A i \in 1..Len(teams) :
            IF pre.teams[i].owner_name = t
            THEN /\ teams[i].owner_name = t
                 /\ Len(teams[i].roster) = Len(pre.teams[i].roster) + 1
                 /\ SubSeq(teams[i].roster, 1, Len(pre.teams[i].roster)) = pre.teams[i].roster
                 /\ teams[i].roster[Len(teams[i].roster)].player_id = <<"str", n>>
                 /\ teams[i].roster[Len(teams[i].roster)].dollars = Dollars(n)
            ELSE teams[i] = pre.teams[i]

\* a pick appended to the non-empty roster of T2 while T1 exists
C9_Witness ==
  \E n \in Nums :
    /\ last.op = "process_pick" /\ last.ret = "ok" /\ Names(last, n)
    /\ last.team_name = "T2"
    /\ TeamKeys(teams) = {"T1", "T2"}
    /\ Len(TeamOf(teams, "T2").roster) = 2
    /\ TeamOf(teams, "T2").roster[2].player_id = <<"str", n>>

\* C10: process_keeper(player, team, cost) makes the player a Keeper whose
\* roster record carries the supplied cost, and export_keeper_config reports
\* that cost.
C10_KeeperCost ==
  \A n \in Nums :
    ( /\ last.op = "process_keeper" /\ last.ret = "True" /\ Names(last, n) )
    => LET team == TeamOf(teams, last.team_name)
           exported == export_keeper_config(Engine).keepers
       IN /\ Row(Engine, n).Status = "Keeper"
          /\ team.roster[Len(team.roster)].dollars = last.cost
          /\ \E i \in 1..Len(exported) :
               /\ exported[i].team_name = last.team_name
               /\ InSeq([player_id |-> <<"str", n>>, cost |-> last.cost],
                        exported[i].keeper_list)

-----------------------------------------------------------------------------
(* C11 .. C12 *)

NameSet(names) == {names[i] : i \in 1..Len(names)}

\* C11: after set_team_names(new_names) the team names are exactly the names
\* of new_names, no two teams share a name, a team whose name was there
\* before is untouched and a team with a new name is empty.
C11_TeamNamesReconciled ==
  last.op = "set_team_names" =>
    /\ TeamKeys(teams) = NameSet(last.new_names)
    /\ \A i, j \in 1..Len(teams) :
         teams[i].owner_name = teams[j].owner_name => i = j
    /\ \A i \in 1..Len(teams) :
         LET name == teams[i].owner_name
         IN IF name \in TeamKeys(pre.teams)
            THEN teams[i] = TeamOf(pre.teams, name)
            ELSE teams[i] = Team(name)

\* a team with a roster kept its name while another name came new
C11_Witness ==
  /\ last.op = "set_team_names"
  /\ \E i \in 1..Len(teams) :
       /\ teams[i].owner_name \in TeamKeys(pre.teams)
       /\ teams[i].roster # <<>>
  /\ \E i \in 1..Len(teams) : teams[i].owner_name \notin TeamKeys(pre.teams)

\* C12: after set_team_names(new_names) every player that was on the roster
\* of a removed team is Available with no drafted-by, and no player of a
\* team that stays has its row changed.
C12_RemovedPlayersAvailable ==
  last.op = "set_team_names" =>
    /\ \A i \in 1..Len(pre.teams) : \A n \in Nums :
         ( /\ pre.teams[i].owner_name \notin NameSet(last.new_names)
           /\ OnRoster(pre.teams[i], n) )
         => Row(Engine, n) = NewRow
    /\ \A i \in 1..Len(pre.teams) : \A n \in Nums :
         ( /\ pre.teams[i].owner_name \in NameSet(last.new_names)
           /\ OnRoster(pre.teams[i], n) )
         => Row(Engine, n) = Row(pre, n)

-----------------------------------------------------------------------------
(* C13 .. C20: the simulator *)

SimOps == {"DraftSimulator", "make_user_pick", "simulate_next_pick",
           "simulate_until_user_or_complete"}

\* what a caller can observe of a simulator besides its engine
Progress(sim) ==
  <<sim.current_pick_index, sim.pick_log, sim.is_paused, sim.simulation_complete>>

\* C13: no simulator operation (construction, make_user_pick,
\* simulate_next_pick, simulate_until_user_or_complete) changes the engine
\* the simulator was built from: pool statuses, drafted-by values, rosters and
\* fill counts of the source engine are after the call what they were before.
C13_SourceEngineUntouched ==
  last.op \in SimOps => Engine = pre

\* a call that drafted a player in the simulator's own engine
C13_Witness ==
  /\ last.op \in {"make_user_pick", "simulate_next_pick"}
  /\ last.ret \in {"True", "pick"}
  /\ sims[1].engine # spre.sims[1].engine
  /\ sims[1].engine # Engine

\* C14: two live simulators do not interfere through randomness: whatever
\* calls of another simulator come between two steps of a seeded simulator,
\* every AI pick of that simulator selects the player its own seeded
\* generator selects.
C14_NoInterference ==
  \A i \in SimIds :
    (sims[i].live /\ sims[i].random_seed # NoSeed) => sims[i].own_match

\* C15: a run repeated with the same engine snapshot, draft order and seed
\* and the same user picks yields the same picks: as long as the two pick
\* logs agree on every earlier pick, they agree on the next AI pick, and two
\* completed runs with the same log end with the same pools and rosters
\* (the standings are computed from the rosters alone).
C15_RepeatableRuns ==
  (sims[1].live /\ sims[2].live /\ sims[1].random_seed # NoSeed) =>
    LET a == sims[1]
        b == sims[2]
        n == IF Len(a.pick_log) < Len(b.pick_log) THEN Len(a.pick_log) ELSE Len(b.pick_log)
    IN /\ \A k \in 1..n :
            (/\ \A j \in 1..(k - 1) : a.pick_log[j] = b.pick_log[j]
             /\ a.draft_order[k].player_name # a.user_team_name)
            => a.pick_log[k] = b.pick_log[k]
       /\ (a.simulation_complete /\ b.simulation_complete /\ a.pick_log = b.pick_log)
            => a.engine = b.engine

\* two completed runs of the three-pick order, both AI picks made twice
C15_Witness ==
  /\ sims[1].live /\ sims[2].live /\ sims[1].random_seed # NoSeed
  /\ sims[1].simulation_complete /\ sims[2].simulation_complete
  /\ Len(sims[1].pick_log) = 3
  /\ sims[1].pick_log = sims[2].pick_log
  /\ \E k \in 1..3 : sims[1].pick_log[k].rationale = "AI"

\* the simulator the most recent call was made on, before and after it
Before == spre.sims[last.sim]
After == sims[last.sim]

\* C16: make_user_pick changes state if and only if it is called on a user
\* turn.  On a user turn it drafts the player to the human team, appends
\* exactly one log entry tagged as a user selection, advances the index by
\* one and clears the pause flag; otherwise it is rejected and index, log,
\* flags and engine state are unchanged.
C16_UserPickIffUserTurn ==
  last.op = "make_user_pick" =>
    IF is_user_turn(Before)
    THEN LET team_name == Before.user_team_name
         IN /\ last.ret = "True"
            /\ After.current_pick_index = Before.current_pick_index + 1
            /\ Len(After.pick_log) = Len(Before.pick_log) + 1
            /\ SubSeq(After.pick_log, 1, Len(Before.pick_log)) = Before.pick_log
            /\ After.pick_log[Len(After.pick_log)].rationale = "User Selection"
            /\ After.pick_log[Len(After.pick_log)].team_name = team_name
            /\ ~After.is_paused
            /\ \E n \in Nums :
                 /\ Names(last, n)
                 /\ Row(After.engine, n) = [Status |-> "Drafted", DraftedBy |-> team_name]
                 /\ team_name \in TeamKeys(After.engine.teams)
                 /\ team_name \in TeamKeys(Before.engine.teams)
                 /\ Len(TeamOf(After.engine.teams, team_name).roster)
                      = Len(TeamOf(Before.engine.teams, team_name).roster) + 1
                 /\ OnRoster(TeamOf(After.engine.teams, team_name), n)
    ELSE /\ last.ret = "False"
         /\ After = Before

\* C17: simulate_next_pick called on a user turn makes no pick: it sets the
\* pause flag, returns nothing, and leaves the pick index, the pick log, the
\* completed flag and the engine state unchanged.
C17_UserTurnOnlyPauses ==
  (last.op = "simulate_next_pick" /\ is_user_turn(Before)) =>
    /\ last.ret = "None"
    /\ last.picks = <<>>
    /\ After.is_paused
    /\ After = [Before EXCEPT !.is_paused = TRUE]
    /\ rng = spre.rng

\* the call that pauses a simulator that has already made a pick
C17_Witness ==
  /\ last.op = "simulate_next_pick"
  /\ is_user_turn(Before)
  /\ ~Before.is_paused
  /\ After.is_paused
  /\ Before.pick_log # <<>>

\* C18: simulate_until_user_or_complete always terminates; when it returns,
\* either the pause flag is set and the index is at a human turn, or the
\* completed flag is set and the index equals the length of the order; the
\* returned list holds exactly the AI picks made during the call, in pick
\* order, and none of them is a pick for the human team.
C18_UntilStopsAtUserOrEnd ==
  last.op = "simulate_until_user_or_complete" =>
    /\ last.ret # "running"
    /\ last.ret = "returned" =>
         /\ \/ After.is_paused /\ is_user_turn(After)
            \/ /\ After.simulation_complete
               /\ After.current_pick_index = Len(After.draft_order)
         /\ After.pick_log = Before.pick_log \o last.picks
         /\ After.current_pick_index = Before.current_pick_index + Len(last.picks)
         /\ \A k \in 1..Len(last.picks) :
              LET row == Before.draft_order[Before.current_pick_index + k]
              IN /\ last.picks[k].pick_number = row.pick_number
                 /\ last.picks[k].team_name = row.player_name
                 /\ last.picks[k].team_name # Before.user_team_name
                 /\ last.picks[k].rationale = "AI"

\* a call that made an AI pick and stopped at the human turn
C18_Witness ==
  /\ last.op = "simulate_until_user_or_complete"
  /\ last.ret = "returned"
  /\ last.picks # <<>>
  /\ After.is_paused
  /\ ~After.simulation_complete

\* C19: Completed is terminal: once the index has reached the end of the
\* order and the completed flag is set, make_user_pick, simulate_next_pick
\* and simulate_until_user_or_complete leave index, log, flags and engine
\* state unchanged, and the completed flag stays set.
C19_CompletedIsTerminal ==
  (/\ last.op \in SimOps \ {"DraftSimulator"}
   /\ Before.simulation_complete
   /\ Before.current_pick_index >= Len(Before.draft_order)) =>
    /\ After.simulation_complete
    /\ Progress(After) = Progress(Before)
    /\ After.engine = Before.engine

\* a user pick offered to a completed simulator whose last turn was the user's
C19_Witness ==
  /\ last.op = "make_user_pick"
  /\ Before.simulation_complete
  /\ Before.draft_order[Len(Before.draft_order)].player_name = Before.user_team_name
  /\ \E n \in Nums : Names(last, n)
  /\ last.ret = "False"

\* the draft orders and human team names the constructor has to refuse
InvalidInput(order, user) ==
  \/ order = <<>>
  \/ order # <<>> /\ order[1].pick_number # 1
  \/ \E i \in 1..(Len(order) - 1) : order[i].pick_number >= order[i + 1].pick_number
  \/ \E i, j \in 1..Len(order) : i # j /\ order[i].pick_number = order[j].pick_number
  \/ \E i \in 1..Len(order) : order[i].tendency \notin {"hitting", "pitching"}
  \/ \A i \in 1..Len(order) : order[i].player_name # user

\* C20: construction with an invalid draft order (pick numbers not strictly
\* increasing, not starting at 1, or duplicated; a tendency outside
\* {hitting, pitching}; a human team that appears nowhere in the order)
\* fails: no simulator exists afterwards and the supplied engine is untouched.
C20_InvalidOrderRejected ==
  (last.op = "DraftSimulator" /\ InvalidInput(last.draft_order, last.user_team_name)) =>
    /\ last.ret \in {"ValueError", "IndexError"}
    /\ ~After.live
    /\ sims = spre.sims
    /\ Engine = pre

\* the refusal of an order that names pick 1 twice, built on an engine that
\* holds a keeper
C20_Witness ==
  /\ last.op = "DraftSimulator"
  /\ Len(last.draft_order) = 2
  /\ last.draft_order[1].pick_number = last.draft_order[2].pick_number
  /\ last.ret = "ValueError"
  /\ \E n \in Nums : Row(Engine, n).Status = "Keeper"

-----------------------------------------------------------------------------
(* C21 .. C30 *)

\* pick numbers strictly increasing from 1 with a gap somewhere
NonContiguous(order) ==
  /\ order # <<>>
  /\ order[1].pick_number = 1
  /\ \A i \in 1..(Len(order) - 1) : order[i].pick_number < order[i + 1].pick_number
  /\ \E i \in 1..Len(order) : order[i].pick_number # i

\* C21: a draft order whose pick numbers are strictly increasing and start
\* at 1 but are not contiguous (1, 3, ...) is malformed: construction of the
\* simulator fails and no simulator exists afterwards.
C21_NonContiguousRejected ==
  (last.op = "DraftSimulator" /\ NonContiguous(last.draft_order)) =>
    /\ last.ret = "ValueError"
    /\ ~After.live

\* the team whose AI turn is pending on the simulator
Acting(sim) == TeamOf(sim.engine.teams, get_current_pick_info(sim).team_name)

AIPending(sim) ==
  /\ sim.live
  /\ ~get_current_pick_info(sim).is_none
  /\ ~get_current_pick_info(sim).is_user_pick
  /\ get_current_pick_info(sim).team_name \in TeamKeys(sim.engine.teams)

\* the Available rows with a Name and a Team in the simulator's pools
Listed(sim) ==
  AvailableRows(sim.engine.bat_df, BatNums) \cup AvailableRows(sim.engine.pitch_df, PitchNums)

\* the tags of the row name no exclusive slot of the team with room left
NoOpenExclusive(team, n) ==
  \A k \in 1..Len(POS(n)) : POS(n)[k] \notin get_needed_positions(team)

\* C22: flex-slot gating: on an AI turn of a team with an open flexible slot
\* (Util, P or BN) the candidates are not narrowed by the positional filter:
\* every Available player, also one eligible for no open exclusive slot, is
\* the pick of simulate_next_pick for some state of the generator.
C22_FlexGating ==
  (AIPending(sims[1]) /\ has_flex_slots(Acting(sims[1]))) =>
    \A n \in Listed(sims[1]) :
      \E g \in RngStates :
        LET r == simulate_next_pick(sims[1], g)
        IN /\ r.ret = "pick"
           /\ r.picks[1].player_name = Name(n)
           /\ Row(r.sim.engine, n).Status = "Drafted"

\* the AI pick of the catcher Bat B for a team whose catcher slot is taken
C22_Witness ==
  /\ last.op = "simulate_next_pick"
  /\ last.ret = "pick"
  /\ AIPending(Before)
  /\ has_flex_slots(Acting(Before))
  /\ NoOpenExclusive(Acting(Before), 1002)
  /\ Listed(Before) # {1002}
  /\ last.picks[1].player_name = Name(1002)

\* C23: the pick log is append-only: every successful pick (AI or user)
\* appends exactly one entry, no operation removes, rewrites or reorders an
\* entry, the pick numbers of the entries are strictly increasing, and the
\* k-th entry records the team of the k-th draft-order entry.
C23_LogAppendOnly ==
  /\ last.op \in SimOps \ {"DraftSimulator"} =>
       /\ Len(Before.pick_log) <= Len(After.pick_log)
       /\ SubSeq(After.pick_log, 1, Len(Before.pick_log)) = Before.pick_log
       /\ last.ret \in {"True", "pick"} =>
            Len(After.pick_log) = Len(Before.pick_log) + 1
       /\ Len(After.pick_log) - Len(Before.pick_log)
            = After.current_pick_index - Before.current_pick_index
  /\ \A i \in SimIds :
       sims[i].live =>
         /\ Len(sims[i].pick_log) <= Len(sims[i].draft_order)
         /\ \A k \in 1..Len(sims[i].pick_log) :
              /\ sims[i].pick_log[k].team_name = sims[i].draft_order[k].player_name
              /\ \A j \in 1..(k - 1) :
                   sims[i].pick_log[j].pick_number < sims[i].pick_log[k].pick_number

\* a user pick appended behind an AI pick
C23_Witness ==
  /\ last.op = "make_user_pick"
  /\ last.ret = "True"
  /\ Len(After.pick_log) = 2
  /\ After.pick_log[1].rationale = "AI"
  /\ After.pick_log[2].rationale = "User Selection"

\* the players a configuration files under team t
FiledUnder(config, t) ==
  {n \in Nums : \E k \in 1..Len(config.keepers) :
     /\ config.keepers[k].team_name = t
     /\ \E j \in 1..Len(config.keepers[k].keeper_list) :
          config.keepers[k].keeper_list[j].player_id[2] = n}

\* the players the pools hold as Keeper of team t
KeepersOf(e, t) ==
  {n \in Nums : Row(e, n) = [Status |-> "Keeper", DraftedBy |-> t]}

\* C24: export_keeper_config returns the current team names and, for each
\* team T, an entry for exactly the players whose pool status is Keeper with
\* drafted-by T: no Keeper is missing, no Drafted or Available player and no
\* other team's Keeper is listed.
C24_ExportIsKeepers ==
  LET config == export_keeper_config(Engine)
  IN /\ NameSet(config.team_names) = TeamKeys(teams)
     /\ \A k \in 1..Len(config.keepers) : config.keepers[k].team_name \in TeamKeys(teams)
     /\ \A t \in TeamKeys(teams) : FiledUnder(config, t) = KeepersOf(Engine, t)

\* the players on team t's roster whose pool row is a Keeper row
RosterKeepers(e, t) ==
  {n \in Nums : OnRoster(TeamOf(e.teams, t), n) /\ Row(e, n).Status = "Keeper"}

\* C25: keeper configuration round trip: the export of an engine, imported
\* into a new engine on the same pools, reports success and leaves every
\* team with exactly the keepers it had in the exporting engine: the same
\* players on the same teams, each with pool status Keeper.
C25_KeeperRoundTrip ==
  LET config == export_keeper_config(Engine)
      r == import_keeper_config(NewEngine(InitTeamNames), config)
  IN /\ r.ret = "True"
     /\ TeamKeys(r.e.teams) = TeamKeys(teams)
     /\ \A t \in TeamKeys(teams) :
          /\ RosterKeepers(r.e, t) = RosterKeepers(Engine, t)
          /\ KeepersOf(r.e, t) = KeepersOf(Engine, t)

\* the players that the configuration of the last import lists under a
\* team of its team_names, and under a team that is not among them
ListedKnown(call) ==
  {n \in Nums : \E k \in 1..Len(call.keepers) :
     /\ call.keepers[k].team_name \in NameSet(call.new_names)
     /\ \E j \in 1..Len(call.keepers[k].keeper_list) :
          call.keepers[k].keeper_list[j].player_id = PlayerId(n)}

ListedUnknown(call) ==
  {n \in Nums : \E k \in 1..Len(call.keepers) :
     /\ call.keepers[k].team_name \notin NameSet(call.new_names)
     /\ \E j \in 1..Len(call.keepers[k].keeper_list) :
          call.keepers[k].keeper_list[j].player_id = PlayerId(n)}

C27_KeeperAcrossIdTypes ==
  /\ (/\ last.op = "process_keeper"
      /\ last.player_id[1] = "str"
      /\ last.player_id[2] \in Nums
      /\ last.team_name \in TeamKeys(pre.teams)) =>
       /\ last.ret = "True"
       /\ Row(Engine, last.player_id[2]) =
            [Status |-> "Keeper", DraftedBy |-> last.team_name]
       /\ OnRoster(TeamOf(teams, last.team_name), last.player_id[2])
  /\ (last.op = "import_keeper_config" /\ last.new_names # <<>>) =>
       \A k \in 1..Len(last.keepers) :
         last.keepers[k].team_name \in NameSet(last.new_names) =>
           \A j \in 1..Len(last.keepers[k].keeper_list) : \A n \in Nums :
             last.keepers[k].keeper_list[j].player_id = <<"str", n>> =>
               /\ Row(Engine, n).Status = "Keeper"
               /\ OnRoster(TeamOf(teams, last.keepers[k].team_name), n)

\* the exclusive batting slots: "specific positions (C, 1B, 2B, 3B, SS, OF)"
BattingSlots == {"C", "1B", "2B", "3B", "SS", "OF"}

\* the player of the last add_player call and the fill-counts it found
Added == teams[1].roster[Len(teams[1].roster)]
FoundFilled == pre.teams[1].slots_filled

\* the position tags of a player, none for an unset position
Tags(player) == IF player.position = None THEN <<>> ELSE player.position

\* the slots whose fill-count the last call raised by one
Raised == {k \in Slots : teams[1].slots_filled[k] = FoundFilled[k] + 1}

\* the indexes of the tags whose exclusive batting slot had room
OpenTags(player) ==
  {i \in 1..Len(Tags(player)) :
     /\ Tags(player)[i] \in BattingSlots
     /\ FoundFilled[Tags(player)[i]] < SLOT_LIMITS[Tags(player)[i]]}

Least(S) == CHOOSE i \in S : \A j \in S : i <= j

Usable(player) ==
  IF player.is_pitcher
  THEN ({Tags(player)[i] : i \in 1..Len(Tags(player))} \cap {"SP", "RP"}) \cup {"P", "BN"}
  ELSE ({Tags(player)[i] : i \in 1..Len(Tags(player))} \cap BattingSlots) \cup {"Util", "BN"}

Reorderings(roster) ==
  {[i \in 1..Len(roster) |-> roster[f[i]]] :
     f \in {g \in [1..Len(roster) -> 1..Len(roster)] :
              \A i, j \in 1..Len(roster) : g[i] = g[j] => i = j}}

\* C29: the live totals of a roster are the same for every order in which
\* its players were added: the counting sums, WAR, OBP, ERA and WHIP.
C29_OrderIndependent ==
  \A r \in Reorderings(teams[1].roster) :
    live_totals([teams[1] EXCEPT !.roster = r]) = live_totals(teams[1])

-----------------------------------------------------------------------------
(* C31 .. C40 *)

\* the players the last call drafted in the simulator's engine
Picked ==
  {n \in Nums : /\ Row(Before.engine, n).Status = "Available"
                /\ Row(After.engine, n).Status = "Drafted"}

\* the rows eligible for an exclusive slot of the team that has room left
Eligible(team, rows) == {n \in rows : ~NoOpenExclusive(team, n)}

\* C31: the hard positional filter: an AI pick for a team with no open
\* flexible slot, made while some candidate is eligible for an exclusive slot
\* that still has room, takes a player eligible for such a slot; with no
\* eligible candidate the filter is skipped and a candidate is picked all the
\* same.
C31_HardFilter ==
  (/\ last.op = "simulate_next_pick"
   /\ AIPending(Before)
   /\ ~has_flex_slots(Acting(Before))
   /\ Listed(Before) # {}) =>
     /\ last.ret = "pick"
     /\ Cardinality(Picked) = 1
     /\ Picked \subseteq Listed(Before)
     /\ Eligible(Acting(Before), Listed(Before)) # {} =>
          Picked \subseteq Eligible(Acting(Before), Listed(Before))

\* an AI pick of the only eligible player while ineligible players of equal
\* or higher rank were Available
C31_Witness ==
  /\ last.op = "simulate_next_pick"
  /\ last.ret = "pick"
  /\ AIPending(Before)
  /\ ~has_flex_slots(Acting(Before))
  /\ Eligible(Acting(Before), Listed(Before)) = {1001}
  /\ Listed(Before) \ {1001} # {}
  /\ Picked = {1001}

\* the rows of the simulator's engine that the last call changed
Changed == {n \in Nums : Row(After.engine, n) # Row(Before.engine, n)}

\* the teams of the draft-order entries the last call went through
TurnTeams ==
  {Before.draft_order[k].player_name :
     k \in (Before.current_pick_index + 1)..After.current_pick_index}

\* C32: every player an AI pick selects was Available before the call, with
\* a Name and a Team, and is Drafted after it with drafted-by the team of the
\* draft-order entry; one player per pick, so no Drafted or Keeper player is
\* ever selected.
C32_AIPicksAvailable ==
  last.op \in {"simulate_next_pick", "simulate_until_user_or_complete"} =>
    /\ \A n \in Changed :
         /\ Row(Before.engine, n).Status = "Available"
         /\ Name(n) # None
         /\ MlbTeam(n) # None
         /\ Row(After.engine, n).Status = "Drafted"
         /\ Row(After.engine, n).DraftedBy \in TurnTeams
         /\ Row(After.engine, n).DraftedBy # Before.user_team_name
    /\ last.ret \in {"pick", "returned"} =>
         /\ Cardinality(Changed) = Len(last.picks)
         /\ Cardinality(Changed) = After.current_pick_index - Before.current_pick_index
    /\ last.ret = "pick" =>
         \A n \in Changed :
           Row(After.engine, n).DraftedBy = get_current_pick_info(Before).team_name

\* the second AI pick of a team: the player of its first pick is Drafted,
\* its keepers are Keeper, a row has no Name, and an Available player is taken
C32_Witness ==
  /\ last.op = "simulate_next_pick"
  /\ last.ret = "pick"
  /\ Cardinality(Changed) = 1
  /\ \E n \in Nums : Row(Before.engine, n).Status = "Drafted"
  /\ \E n \in Nums : Row(Before.engine, n).Status = "Keeper"
  /\ \E n \in Nums : Row(Before.engine, n).Status = "Available" /\ Name(n) = None

\* the players that are scored and can be drawn on the pending AI turn
Candidates(sim) ==
  LET ps == player_scores(sim.engine, get_current_pick_info(sim).team_name)
  IN {ps[i].n : i \in 1..Len(ps)}

\* the pool the cap is applied to: the Available rows, narrowed to the
\* eligible ones when the positional filter is in force
FilteredPool(sim) ==
  IF ~has_flex_slots(Acting(sim)) /\ Eligible(Acting(sim), Listed(sim)) # {}
  THEN Eligible(Acting(sim), Listed(sim))
  ELSE Listed(sim)

\* C33: on every AI turn at most TOP_N_PLAYERS candidates are scored,
\* batters and pitchers counted together, and they are the highest-dollar
\* players of the filtered pool: no player left out is worth more than a
\* candidate, and none is left out while fewer than TOP_N_PLAYERS are taken.
C33_TopNCandidates ==
  AIPending(sims[1]) =>
    /\ Cardinality(Candidates(sims[1])) <= TOP_N_PLAYERS
    /\ Candidates(sims[1]) \subseteq FilteredPool(sims[1])
    /\ \A n \in Candidates(sims[1]) : \A m \in FilteredPool(sims[1]) \ Candidates(sims[1]) :
         Dollars(n) >= Dollars(m)
    /\ Cardinality(Candidates(sims[1])) < TOP_N_PLAYERS =>
         Candidates(sims[1]) = FilteredPool(sims[1])

\* at least as many selectable players as picks remain
EnoughPlayers(sim) ==
  /\ sim.live
  /\ Cardinality(Listed(sim)) >= Len(sim.draft_order) - sim.current_pick_index

\* C34: liveness of the draft: with a caller that answers every user turn
\* with a pick of an Available player and keeps invoking the simulation, a
\* simulator with at least as many selectable players as remaining picks
\* eventually is Completed; the pick index never decreases and a successful
\* pick advances it by exactly one.
C34_DraftCompletes ==
  /\ [][sims[1].live =>
          /\ sims'[1].current_pick_index >= sims[1].current_pick_index
          /\ last'.ret \in {"pick", "True"} =>
               sims'[1].current_pick_index = sims[1].current_pick_index + 1
          /\ (last'.ret = "returned") =>
               sims'[1].current_pick_index =
                 sims[1].current_pick_index + Len(last'.picks)]_vars
  /\ (EnoughPlayers(sims[1]) ~> sims[1].simulation_complete)

\* an AI turn is pending and no Available row with a Name and a Team is left
EmptyTurn(sim) == AIPending(sim) /\ Listed(sim) = {}

\* C35: an AI turn with an empty candidate pool ends in an error, not in a
\* pick: simulate_next_pick raises and leaves index, log, flags, engine and
\* generator as they were; simulate_until_user_or_complete ends with the same
\* error at that turn, keeping the picks made before it, and never runs on.
C35_EmptyPoolDefined ==
  /\ (last.op = "simulate_next_pick" /\ EmptyTurn(Before)) =>
       /\ last.ret = "ValueError"
       /\ last.picks = <<>>
       /\ After = Before
       /\ rng = spre.rng
       /\ After.alias => Engine = pre
  /\ last.op = "simulate_until_user_or_complete" =>
       /\ last.ret # "running"
       /\ (EmptyTurn(After) /\ ~After.is_paused /\ ~After.simulation_complete) =>
            /\ last.ret = "ValueError"
            /\ Len(After.pick_log) - Len(Before.pick_log)
                 = After.current_pick_index - Before.current_pick_index
       /\ last.ret = "ValueError" => EmptyTurn(After)

\* simulate_until_user_or_complete made a pick and then came to an AI turn
\* with nothing left to select
C35_Witness ==
  /\ last.op = "simulate_until_user_or_complete"
  /\ last.ret = "ValueError"
  /\ EmptyTurn(After)
  /\ After.current_pick_index > Before.current_pick_index

\* C36: roster/pool agreement: every player is on at most one roster and at
\* most once on it, and is on the roster of team T if and only if its row is
\* Drafted or Keeper with DraftedBy equal to T.
C36_RosterPoolAgreement ==
  \A n \in Nums :
    /\ \A i, j \in 1..Len(teams) :
         (OnRoster(teams[i], n) /\ OnRoster(teams[j], n)) => i = j
    /\ \A i \in 1..Len(teams) :
         /\ Cardinality(Entries(teams[i], n)) <= 1
         /\ OnRoster(teams[i], n) <=>
              /\ Row(Engine, n).Status \in {"Drafted", "Keeper"}
              /\ Row(Engine, n).DraftedBy = teams[i].owner_name

\* C37: the simulator's engine is a faithful snapshot: at construction every
\* row has the Status and DraftedBy it has in the source engine, and in every
\* simulator a player on a roster is not Available, so that no pick can
\* select it again.
C37_FaithfulSnapshot ==
  /\ (last.op = "DraftSimulator" /\ After.live) =>
       \A n \in Nums : Row(After.engine, n) = Row(Engine, n)
  /\ \A i \in SimIds : sims[i].live =>
       \A n \in Nums, t \in 1..Len(sims[i].engine.teams) :
         OnRoster(sims[i].engine.teams[t], n) =>
           Row(sims[i].engine, n).Status # "Available"

\* C38: in every state of a simulator the pause flag implies that the index
\* is within the draft order and the entry at the index is the human team's;
\* so the pause flag and the completed flag are never both set.
C38_PausedAtUserTurn ==
  \A i \in SimIds : sims[i].live =>
    /\ sims[i].is_paused =>
         /\ sims[i].current_pick_index < Len(sims[i].draft_order)
         /\ sims[i].draft_order[sims[i].current_pick_index + 1].player_name
              = sims[i].user_team_name
    /\ sims[i].simulation_complete =>
         sims[i].current_pick_index >= Len(sims[i].draft_order)
    /\ ~(sims[i].is_paused /\ sims[i].simulation_complete)

\* a simulator paused at the user's turn after an earlier pick of the user
C38_Witness ==
  /\ sims[1].live
  /\ sims[1].is_paused
  /\ sims[1].current_pick_index > 0
  /\ \E k \in 1..Len(sims[1].pick_log) : sims[1].pick_log[k].rationale = "User Selection"

\* C39: import_keeper_config is idempotent: after a successful import,
\* importing the same configuration again, or the engine's own export, leaves
\* the rows, the rosters and the fill counts as the first import left them.
C39_ImportIdempotent ==
  (last.op = "import_keeper_config" /\ last.ret = "True") =>
    /\ import_keeper_config(Engine, [team_names |-> last.new_names,
                                     keepers |-> last.keepers]).e = Engine
    /\ import_keeper_config(Engine, export_keeper_config(Engine)).e = Engine

\* C40: slot typing: whatever tags the player carries, a batter raises only
\* the count of a batting slot, Util or BN and a pitcher only that of SP, RP,
\* P or BN; the counts of IL and NA stay at zero.
C40_SlotTyping ==
  /\ (last.op = "add_player" /\ ~last.is_pitcher) =>
       Raised \subseteq (BattingSlots \cup {"Util", "BN"})
  /\ (last.op = "add_player" /\ last.is_pitcher) =>
       Raised \subseteq {"SP", "RP", "P", "BN"}
  /\ \A i \in 1..Len(teams) :
       teams[i].slots_filled["IL"] = 0 /\ teams[i].slots_filled["NA"] = 0

-----------------------------------------------------------------------------

TypeOK ==
  /\ idType \in Reps
  /\ \A n \in BatNums : bat_df[n].Status \in {"Available", "Drafted", "Keeper"}
  /\ \A n \in PitchNums : pitch_df[n].Status \in {"Available", "Drafted", "Keeper"}

====
